---------------------------- MODULE Spec2Model ----------------------------
(***************************************************************************)
(* State-machine model of the webhook ingestion and token lifecycle code   *)
(* of everlight-api: the RawEntry store and its writers                    *)
(* (integrations/notion_importer.py, integrations/gmail_importer.py), the  *)
(* Notion webhook handler and the credential helpers                       *)
(* (api/integration_endpoints.py), over the tables of db/models.py.        *)
(*                                                                         *)
(* Every coroutine is cut at its awaits: one action is the code that runs  *)
(* between two suspension points.  Each unit of work owns a database       *)
(* session (db/session.py: SessionLocal, NullPool), so rows a session has  *)
(* flushed but not committed are private to it.                            *)
(***************************************************************************)
EXTENDS Integers, Sequences, FiniteSets, TLC

\* ------------------------------------------------------------------ bounds
MaxTasks == 2

\* Clock readings run from 0 to MaxTime, in minutes.
MaxTime == 2

\* The longest byte string a decode site is tried on.
MaxBytes == 4

\* ----------------------------------------------------------------- domains
None == "None"

Users == {"u1", "u2"}

PageIds == {"p1", "p2"}

\* What a fetch can bring back for one page or email: one of two versions of
\* the whole content, or (Notion) a block list cut short by an error that
\* _get_all_blocks swallows.
Contents == {"v1", "v2", "partial"}

Whole == {"v1", "v2"}

Tasks == 1 .. MaxTasks

VARIABLES
    raw_entries,          \* committed rows of table raw_entries
    next_id,              \* next primary key handed out
    integration_tokens,   \* committed rows of table integration_tokens
    tasks,                \* units of work: task id -> locals and position
    notified,             \* ids of entries a notification was enqueued for
    queue_configured,     \* the Cloud Tasks configuration, one of QueueStates
    verification_token,   \* NOTION_WEBHOOK_VERIFICATION_TOKEN, None if unset
    webhook,              \* the last webhook delivery and its response
    verify_call,          \* one call of _verify_notion_signature
    now,                  \* datetime.utcnow(), in minutes
    token_calls,          \* calls for a valid Gmail token: task id -> locals
    issued,               \* access tokens the provider has issued so far
    endpoint_calls        \* connect, disconnect and status requests:
                          \* task id -> locals and position

vars == <<raw_entries, next_id, integration_tokens, tasks, notified,
          queue_configured, verification_token, webhook, verify_call,
          now, token_calls, issued, endpoint_calls>>

\* What the RawEntry writers never touch, and what the endpoints of the
\* webhook never touch.
outside_store == <<integration_tokens, verification_token, webhook,
                   verify_call, now, token_calls, issued, endpoint_calls>>

token_vars == <<now, token_calls, issued>>

store_vars == <<raw_entries, next_id, tasks, notified, queue_configured>>

\* ------------------------------------------------------------ table schema
\* The mapped columns of class RawEntry; created_at is the server default
\* func.now() of the INSERT.
RawEntry(id, user_id, source, source_id, content) ==
    [id |-> id, user_id |-> user_id, source |-> source,
     source_id |-> source_id, content |-> content,
     embedding |-> <<"embedding", content>>, created_at |-> now]

\* token_metadata without an "expires_at" entry (or no token_metadata).
NoExpiry == -1

\* A row of integration_tokens.  expires_at is token_metadata["expires_at"],
\* a clock reading in minutes; webhook_primary_id is the column of the table
\* the helpers of integration_endpoints.py address.
IntegrationToken(user_id, integration_type, access_token, refresh_token, expires_at, webhook_primary_id) ==
    [user_id |-> user_id, integration_type |-> integration_type,
     access_token |-> access_token, refresh_token |-> refresh_token,
     expires_at |-> expires_at, webhook_primary_id |-> webhook_primary_id]

\* The opaque embedding collaborator: text -> vector.
embed_document(text) == <<"embedding", text>>

Key(r) == <<r.user_id, r.source, r.source_id>>

RowsForAnyUser(rows, user_id, source, source_id) ==
    {r \in rows : r.source = source /\ r.source_id = source_id}

RowsFor(rows, user_id, source, source_id) ==
    {r \in rows : r.user_id = user_id /\ r.source = source
                  /\ r.source_id = source_id}

\* UniqueConstraint('user_id', 'source', 'source_id'): may `new` join `rows`?
\* (NULL source ids never collide.)
uq_dropped(rows, new) == TRUE

uq_user_source_source_id(rows, new) ==
    \/ new.source_id = None
    \/ RowsFor(rows, new.user_id, new.source, new.source_id) = {}

\* ------------------------------------------------------------------- tasks
NoResult ==
    [status |-> "none", operation |-> "none", message |-> "none",
     raised |-> FALSE]

IdleTask ==
    [kind |-> "none", pc |-> "idle", user_id |-> None, page_id |-> None,
     existing |-> 0, items |-> <<>>, pending |-> {}, tx |-> "none",
     processed |-> 0, notify |-> "none", notion_token |-> None,
     result |-> NoResult]

Started == {t \in Tasks : tasks[t].pc # "idle"}

\* Task ids are handed out in order of arrival.
IsNext(t) == tasks[t].pc = "idle" /\ \A s \in Tasks : s < t => s \in Started

\* Rows other sessions have flushed and not yet committed for the same key:
\* the database makes an INSERT of that key wait for them.
LockedByOther(t, user_id, source, source_id) ==
    \E s \in Tasks \ {t} :
        RowsFor(tasks[s].pending, user_id, source, source_id) # {}

\* The dict a call returns, and an exception leaving the call.
Return(status, operation, message) ==
    [status |-> status, operation |-> operation, message |-> message,
     raised |-> FALSE]

Raise(message) ==
    [status |-> "error", operation |-> "none", message |-> message,
     raised |-> TRUE]

\* The environment of the notifier: GOOGLE_CLOUD_PROJECT and
\* AI_AGENT_SERVICE_URL set and the queue accepting tasks; one of the two
\* variables unset; the Cloud Tasks client raising (no credentials, no such
\* queue, no connection); the agent service down, which the queue and not
\* the notifier finds out.
QueueStates ==
    {"configured", "no_project", "no_url", "client_raises",
     "consumer_unreachable"}

send_raw_entry_notification_unguarded(entry_id) ==
    IF queue_configured \in {"no_project", "no_url"}
    THEN [raised |-> FALSE, notified |-> notified]
    ELSE IF queue_configured = "client_raises"
    THEN [raised |-> TRUE, notified |-> notified]
    ELSE [raised |-> FALSE, notified |-> notified \cup {entry_id}]

\* _send_raw_entry_notification (notion_importer.py, lines 436-500) and
\* send_raw_entry_notification (messaging.py, lines 22-86): return early
\* when a variable is unset, else enqueue a task for the entry; every
\* exception is caught and printed.  Yields whether an exception leaves the
\* call, and the ids a task was enqueued for.
send_raw_entry_notification(entry_id) ==
    IF queue_configured \in {"no_project", "no_url"}
    THEN [raised |-> FALSE, notified |-> notified]
    ELSE IF queue_configured = "client_raises"
    THEN [raised |-> FALSE, notified |-> notified]
    ELSE [raised |-> FALSE, notified |-> notified \cup {entry_id}]

\* What the caller sees of the notification (try/except around the call).
Notified(entry_id) ==
    IF send_raw_entry_notification(entry_id).raised THEN "raised"
    ELSE "returned"

\* SELECT RawEntry WHERE user_id, source, source_id ... scalar_one_or_none():
\* the id of the row among `rows`, 0 for None.
select_existing_entry_by_json_path(rows, user_id, source, source_id) == 0

select_existing_entry(rows, user_id, source, source_id) ==
    LET found == RowsFor(rows, user_id, source, source_id)
    IN  IF found = {} THEN 0 ELSE (CHOOSE r \in found : TRUE).id

\* ---------------------------------------------- notion_importer: one page
get_stored_notion_token_any_user(user_id) ==
    LET found == {k \in integration_tokens : k.integration_type = "notion"}
    IN  IF found = {}
        THEN [raised |-> "ValueError", access_token |-> None]
        ELSE IF Cardinality(found) > 1
        THEN [raised |-> "MultipleResultsFound", access_token |-> None]
        ELSE [raised |-> "none",
              access_token |-> (CHOOSE k \in found : TRUE).access_token]

\* get_stored_notion_token, lines 178-205: the access token of the row
\* scalar_one_or_none() yields, ValueError when there is no row; more than
\* one row makes scalar_one_or_none() raise MultipleResultsFound.
get_stored_notion_token(user_id) ==
    LET found == {k \in integration_tokens :
                     k.user_id = user_id /\ k.integration_type = "notion"}
    IN  IF found = {}
        THEN [raised |-> "ValueError", access_token |-> None]
        ELSE IF Cardinality(found) > 1
        THEN [raised |-> "MultipleResultsFound", access_token |-> None]
        ELSE [raised |-> "none",
              access_token |-> (CHOOSE k \in found : TRUE).access_token]

resolve_notion_token_unchecked(user_id, notion_token) ==
    [raised |-> "none", access_token |-> notion_token]

\* `if not notion_token: notion_token = await get_stored_notion_token(...)`
\* (lines 43-45, 221-223): None and the empty string are both "no token".
resolve_notion_token(user_id, notion_token) ==
    IF notion_token \in {None, ""} THEN get_stored_notion_token(user_id)
    ELSE [raised |-> "none", access_token |-> notion_token]

\* `except Exception` of create_or_update_notion_page (lines 164-172):
\* roll back and report the error in the returned dict.
upsert_reraise(message) == Raise(message)

upsert_except(message) == Return("error", "none", message)

\* Lines 42-71: resolve the token, open the session, SELECT the existing row
\* (the session's transaction begins here), then suspend in pages.retrieve.
create_or_update_notion_page_select(t, user_id, page_id, notion_token) ==
    /\ IsNext(t)
    /\ LET tok == resolve_notion_token(user_id, notion_token)
       IN  tasks' = [tasks EXCEPT ![t] =
             IF tok.raised = "ValueError"
             THEN [IdleTask EXCEPT !.kind = "upsert", !.pc = "done",
                     !.user_id = user_id, !.page_id = page_id,
                     !.notion_token = notion_token,
                     !.result = Return("error", "none", "no token")]
             ELSE IF tok.raised # "none"
             THEN [IdleTask EXCEPT !.kind = "upsert", !.pc = "done",
                     !.user_id = user_id, !.page_id = page_id,
                     !.notion_token = notion_token,
                     !.result = Raise(tok.raised)]
             ELSE [IdleTask EXCEPT !.kind = "upsert", !.pc = "retrieve",
                     !.user_id = user_id, !.page_id = page_id,
                     !.notion_token = notion_token,
                     !.tx = "open",
                     !.existing = select_existing_entry(
                                     raw_entries, user_id, "notion", page_id)]]
    /\ UNCHANGED <<raw_entries, next_id, outside_store, notified,
                   queue_configured>>

\* Lines 73-83: pages.retrieve answers with the page, or fails.
create_or_update_notion_page_retrieve(t) ==
    /\ tasks[t].kind = "upsert" /\ tasks[t].pc = "retrieve"
    /\ \E ok \in BOOLEAN :
         tasks' = [tasks EXCEPT ![t] =
             IF ok THEN [@ EXCEPT !.pc = "blocks"]
             ELSE [@ EXCEPT !.pc = "done", !.tx = "none",
                            !.result = Return("error", "none", "retrieve")]]
    /\ UNCHANGED <<raw_entries, next_id, outside_store, notified,
                   queue_configured>>

\* A write that replaces the whole row with a freshly built one.
replace_existing_entry(rows, existing, content) ==
    {IF r.id = existing
     THEN RawEntry(next_id, r.user_id, r.source, r.source_id, content)
     ELSE r : r \in rows}

\* Lines 114-119 and 138: the UPDATE the commit sends for the loaded row sets
\* the two attributes assigned, content and embedding, WHERE id = existing.
update_existing_entry(rows, existing, content) ==
    {IF r.id = existing
     THEN [r EXCEPT !.content = content,
                    !.embedding = embed_document(content)]
     ELSE r : r \in rows}

\* Lines 85-175: the block listing returns (whole, or cut short by an error
\* _get_all_blocks swallows), then without suspending: embed, update or
\* insert, flush, commit, notify, return.
create_or_update_notion_page_store(t) ==
    /\ tasks[t].kind = "upsert" /\ tasks[t].pc = "blocks"
    /\ \E content \in Contents, embedded \in BOOLEAN :
         LET me == tasks[t]
             new == RawEntry(next_id, me.user_id, "notion", me.page_id,
                             content)
             inserts == embedded /\ me.existing = 0
             stored == inserts /\ uq_user_source_source_id(raw_entries, new)
             updates == embedded /\ me.existing # 0
             entry_id == IF updates THEN me.existing ELSE next_id
         IN  /\ inserts =>
                  ~LockedByOther(t, me.user_id, "notion", me.page_id)
             /\ raw_entries' =
                  IF updates
                  THEN update_existing_entry(raw_entries, me.existing,
                                             content)
                  ELSE IF stored THEN raw_entries \cup {new}
                  ELSE raw_entries
             /\ next_id' = IF stored THEN next_id + 1 ELSE next_id
             /\ notified' = IF updates \/ stored
                            THEN send_raw_entry_notification(entry_id).notified
                            ELSE notified
             /\ tasks' = [tasks EXCEPT ![t] =
                  [@ EXCEPT !.pc = "done", !.tx = "none",
                            !.notify = IF updates \/ stored
                                       THEN Notified(entry_id) ELSE @,
                            !.result =
                               IF updates
                               THEN Return("success", "updated", "ok")
                               ELSE IF stored
                               THEN Return("success", "created", "ok")
                               ELSE IF embedded
                               THEN upsert_except("IntegrityError")
                               ELSE upsert_except("embedding")]]
    /\ UNCHANGED <<outside_store, queue_configured>>

\* ------------------------------------------------ bulk imports: shared
\* What the provider lists for a bulk import (search results, inbox ids).
Listings == {<<"p1">>, <<"p1", "p2">>}

\* Rows a session sees: committed ones and the ones it flushed itself.
Visible(me) == raw_entries \cup me.pending

\* db.add + db.flush of `new` in the task's session: the INSERT joins the
\* session's transaction, or the unique constraint rejects it and the
\* session rolls the whole transaction back (every row flushed so far is
\* gone) and stays failed until Session.rollback().  A failed session raises
\* PendingRollbackError on every later statement.
flush(me, new) ==
    IF me.tx = "failed" THEN me
    ELSE IF uq_user_source_source_id(Visible(me), new)
    THEN [me EXCEPT !.tx = "open", !.pending = @ \cup {new},
                    !.processed = @ + 1]
    ELSE [me EXCEPT !.tx = "failed", !.pending = {}]

Flushed(me, new) ==
    me.tx # "failed" /\ uq_user_source_source_id(Visible(me), new)

\* db.commit() after the loop and the return that follows; a failed session
\* raises, the outer handler rolls back and reports an error.
bulk_commit(me) ==
    IF me.tx = "failed"
    THEN [me EXCEPT !.pc = "done", !.tx = "none", !.pending = {},
                    !.items = <<>>, !.page_id = None, !.processed = 0,
                    !.result = Return("error", "none", "PendingRollback")]
    ELSE [me EXCEPT !.pc = "done", !.tx = "none", !.pending = {},
                    !.items = <<>>, !.page_id = None,
                    !.result = Return("success", "none", "ok")]

Committed(me) == IF me.tx = "failed" THEN {} ELSE me.pending

\* ------------------------------------- notion_importer: bulk backfill
\* Lines 220-243: resolve the token, open the session, suspend in search.
populate_raw_entries_from_notion_entry(user_id, notion_token) ==
    LET tok == resolve_notion_token(user_id, notion_token)
    IN  IF tok.raised = "ValueError"
        THEN [IdleTask EXCEPT !.kind = "notion_bulk", !.pc = "done",
                !.user_id = user_id, !.notion_token = notion_token,
                !.result = Return("error", "none", "no token")]
        ELSE IF tok.raised # "none"
        THEN [IdleTask EXCEPT !.kind = "notion_bulk", !.pc = "done",
                !.user_id = user_id, !.notion_token = notion_token,
                !.result = Raise(tok.raised)]
        ELSE [IdleTask EXCEPT !.kind = "notion_bulk",
                !.pc = "discover", !.user_id = user_id,
                !.notion_token = notion_token]

\* A call of populate_raw_entries_from_notion(user_id, notion_token).
populate_raw_entries_from_notion_start(t, user_id, notion_token) ==
    /\ IsNext(t)
    /\ tasks' = [tasks EXCEPT ![t] =
          populate_raw_entries_from_notion_entry(user_id, notion_token)]
    /\ UNCHANGED <<raw_entries, next_id, outside_store, notified,
                   queue_configured>>

\* Lines 243-262: _get_all_pages returns; nothing found ends the import.
populate_raw_entries_from_notion_discover(t) ==
    /\ tasks[t].kind = "notion_bulk" /\ tasks[t].pc = "discover"
    /\ \E pages \in Listings \cup {<<>>} :
         tasks' = [tasks EXCEPT ![t] =
             IF pages = <<>>
             THEN [@ EXCEPT !.pc = "done",
                            !.result = Return("success", "none", "ok")]
             ELSE [@ EXCEPT !.pc = "retrieve", !.items = pages,
                            !.page_id = Head(pages)]]
    /\ UNCHANGED <<raw_entries, next_id, outside_store, notified,
                   queue_configured>>

\* `continue` / end of one iteration: the next page, or commit and return.
notion_bulk_next(me) ==
    IF Len(me.items) > 1
    THEN [me EXCEPT !.pc = "retrieve", !.items = Tail(@),
                    !.page_id = me.items[2]]
    ELSE bulk_commit(me)

\* Lines 262-263: pages.retrieve of the current page answers or fails
\* (the per-item handler continues with the next page).
populate_raw_entries_from_notion_retrieve(t) ==
    /\ tasks[t].kind = "notion_bulk" /\ tasks[t].pc = "retrieve"
    /\ \E ok \in BOOLEAN :
         LET me == tasks[t]
             last == ~ok /\ Len(me.items) = 1
         IN  /\ tasks' = [tasks EXCEPT ![t] =
                  IF ok THEN [me EXCEPT !.pc = "blocks"]
                  ELSE notion_bulk_next(me)]
             /\ raw_entries' = IF last THEN raw_entries \cup Committed(me)
                               ELSE raw_entries
    /\ UNCHANGED <<next_id, outside_store, notified, queue_configured>>

\* Lines 266-312: the block listing returns, then without suspending: embed,
\* add, flush, notify; after the last page, commit (lines 315-334).
populate_raw_entries_from_notion_store(t) ==
    /\ tasks[t].kind = "notion_bulk" /\ tasks[t].pc = "blocks"
    /\ \E content \in Contents, embedded \in BOOLEAN :
         LET me == tasks[t]
             new == RawEntry(next_id, me.user_id, "notion", me.page_id,
                             content)
             inserts == embedded /\ me.tx # "failed"
             stored == embedded /\ Flushed(me, new)
             after == IF embedded THEN flush(me, new) ELSE me
         IN  /\ inserts =>
                  ~LockedByOther(t, me.user_id, "notion", me.page_id)
             /\ tasks' = [tasks EXCEPT ![t] = notion_bulk_next(
                  IF stored THEN [after EXCEPT !.notify = Notified(next_id)]
                  ELSE after)]
             /\ raw_entries' = IF Len(me.items) = 1
                               THEN raw_entries \cup Committed(after)
                               ELSE raw_entries
             /\ next_id' = IF stored THEN next_id + 1 ELSE next_id
             /\ notified' = IF stored
                            THEN send_raw_entry_notification(next_id).notified
                            ELSE notified
    /\ UNCHANGED <<outside_store, queue_configured>>

\* --------------------------------------- gmail_importer: bulk import
\* The import starts in import_latest_gmail_emails_start, defined with the
\* stored-token readers it calls.
\* The synchronous head of each iteration (lines 179-193): SELECT the
\* existing row and skip the email when there is one; a failed session
\* raises on the SELECT and the handler continues.  Returns the emails left
\* from the first one that needs its details fetched.
RECURSIVE gmail_skip(_, _)
gmail_skip(me, items) ==
    IF items = <<>> THEN <<>>
    ELSE IF me.tx = "failed"
            \/ select_existing_entry(Visible(me), me.user_id, "gmail",
                                     Head(items)) # 0
    THEN gmail_skip(me, Tail(items))
    ELSE items

\* Continue the loop over `items`: suspend in _get_email_details for the
\* first email not yet stored, or commit and return (lines 253-276).
gmail_bulk_next(me, items) ==
    LET left == gmail_skip(me, items)
    IN  IF left = <<>> THEN bulk_commit(me)
        ELSE [me EXCEPT !.pc = "details", !.items = left,
                        !.page_id = Head(left),
                        !.tx = IF @ = "none" THEN "open" ELSE @]

GmailCommits(me, items) == gmail_skip(me, items) = <<>>

\* Lines 165-196: the id list returns (empty on any error).
import_latest_gmail_emails_list(t) ==
    /\ tasks[t].kind = "gmail_bulk" /\ tasks[t].pc = "list"
    /\ \E email_ids \in Listings \cup {<<>>} :
         tasks' = [tasks EXCEPT ![t] =
             IF email_ids = <<>>
             THEN [@ EXCEPT !.pc = "done",
                            !.result = Return("success", "none", "ok")]
             ELSE gmail_bulk_next(@, email_ids)]
    /\ UNCHANGED <<raw_entries, next_id, outside_store, notified,
                   queue_configured>>

\* Lines 196-247: the details return (None on any error: continue), then
\* without suspending: embed, add, flush, notify, and suspend in sleep.
import_latest_gmail_emails_details(t) ==
    /\ tasks[t].kind = "gmail_bulk" /\ tasks[t].pc = "details"
    /\ \E ok \in BOOLEAN, content \in Whole, embedded \in BOOLEAN :
         LET me == tasks[t]
             new == RawEntry(next_id, me.user_id, "gmail", me.page_id,
                             content)
             tries == ok /\ embedded
             stored == tries /\ Flushed(me, new)
             after == IF tries THEN flush(me, new) ELSE me
             commits == ~stored /\ GmailCommits(after, Tail(me.items))
         IN  /\ (tries /\ me.tx # "failed") =>
                  ~LockedByOther(t, me.user_id, "gmail", me.page_id)
             /\ tasks' = [tasks EXCEPT ![t] =
                  IF stored
                  THEN [after EXCEPT !.pc = "sleep",
                                     !.notify = Notified(next_id)]
                  ELSE gmail_bulk_next(after, Tail(me.items))]
             /\ raw_entries' = IF commits
                               THEN raw_entries \cup Committed(after)
                               ELSE raw_entries
             /\ next_id' = IF stored THEN next_id + 1 ELSE next_id
             /\ notified' = IF stored
                            THEN send_raw_entry_notification(next_id).notified
                            ELSE notified
    /\ UNCHANGED <<outside_store, queue_configured>>

\* Line 247 onwards: the rate-limit sleep returns; next email or commit.
import_latest_gmail_emails_sleep(t) ==
    /\ tasks[t].kind = "gmail_bulk" /\ tasks[t].pc = "sleep"
    /\ LET me == tasks[t]
       IN  /\ tasks' = [tasks EXCEPT ![t] =
                            gmail_bulk_next(me, Tail(me.items))]
           /\ raw_entries' = IF GmailCommits(me, Tail(me.items))
                             THEN raw_entries \cup Committed(me)
                             ELSE raw_entries
    /\ UNCHANGED <<next_id, outside_store, notified, queue_configured>>

\* ------------------------------------------ webhook signature verifier
\* The literal "sha256=" a signature header starts with, as characters.
Prefix == <<"s", "h", "a", "2", "5", "6", "=">>

\* hmac.new(key, body, hashlib.sha256).hexdigest(): the digest as one symbol
\* that names its key and message (distinct inputs give distinct digests);
\* `body` is the text of the raw body, so equal bodies give equal digests.
hexdigest(key, body) == "hmac-sha256(" \o key \o "," \o body \o ")"

\* str.startswith
startswith(text, prefix) ==
    Len(text) >= Len(prefix) /\ SubSeq(text, 1, Len(prefix)) = prefix

\* hmac.compare_digest
compare_digest(a, b) == a = b

\* A header that is absent (None), and the empty header '': both are false
\* in a condition and _verify_notion_signature answers False for both, the
\* first through AttributeError, the second through startswith.
NoHeader == <<None>>

EmptyHeader == <<>>

NoCall == [body |-> None, verification_token |-> None,
           signature_header |-> NoHeader, applied |-> FALSE,
           result |-> FALSE, raised |-> FALSE]

\* A secret str.encode('utf-8') rejects (a lone surrogate), and a digest
\* with a character outside ASCII, which hmac.compare_digest rejects.
MalformedSecret == "lone-surrogate"

NonAsciiDigest == "non-ascii"

\* The try block, lines 383-397: what it returns, or the exception raised
\* in it.  A None header has no startswith, a None secret no encode.
verify_try(body, token, signature_header) ==
    IF signature_header = NoHeader THEN "AttributeError"
    ELSE IF ~startswith(signature_header, Prefix) THEN "False"
    ELSE IF token = None THEN "AttributeError"
    ELSE IF token = MalformedSecret THEN "UnicodeEncodeError"
    ELSE LET received_signature ==
                 SubSeq(signature_header, 8, Len(signature_header))
             expected_signature == <<hexdigest(token, body)>>
         IN  IF NonAsciiDigest \in
                    {received_signature[i] :
                        i \in 1 .. Len(received_signature)}
             THEN "TypeError"
             ELSE IF compare_digest(expected_signature, received_signature)
             THEN "True" ELSE "False"

verify_reraise(outcome) ==
    [raised |-> outcome \notin {"True", "False"}, result |-> outcome = "True"]

\* `except Exception` of lines 399-401: print and return False.
verify_except(outcome) ==
    [raised |-> FALSE, result |-> outcome = "True"]

verify_slice_6(body, token, signature_header) ==
    IF signature_header = NoHeader \/ token = None THEN FALSE
    ELSE IF ~startswith(signature_header, Prefix) THEN FALSE
    ELSE LET received_signature ==
                 SubSeq(signature_header, 7, Len(signature_header))
             expected_signature == <<hexdigest(token, body)>>
         IN  compare_digest(expected_signature, received_signature)

\* Lines 382-401: the try block under its handler; an exception raised in
\* the block is answered False.
_verify_notion_signature(body, token, signature_header) ==
    verify_except(verify_try(body, token, signature_header)).result

\* The header a sender holding `token` computes for `body`.
SignatureHeader(body, token) == Prefix \o <<hexdigest(token, body)>>

Secrets == {"s1", "s2"}

RawBodies == {"b1", "b2", "b3"}

\* Headers a request can carry for digest d: well formed, without the
\* prefix, with another algorithm's prefix, with the "=" missing, with an
\* empty signature, with trailing data.
HeaderShapes(d) ==
    {Prefix \o <<d>>, <<d>>, <<"s", "h", "a", "1", "=">> \o <<d>>,
     <<"s", "h", "a", "2", "5", "6">> \o <<d>>, Prefix,
     Prefix \o <<d, "0">>, Prefix \o <<NonAsciiDigest>>}

Headers(bodies, secrets) ==
    UNION {HeaderShapes(hexdigest(k, b)) : k \in secrets, b \in bodies}

verify_apply ==
    /\ ~verify_call.applied
    /\ verify_call' = [verify_call EXCEPT !.applied = TRUE, !.result =
          _verify_notion_signature(verify_call.body,
                                   verify_call.verification_token,
                                   verify_call.signature_header),
          !.raised =
              verify_except(verify_try(verify_call.body,
                                verify_call.verification_token,
                                verify_call.signature_header)).raised]
    /\ UNCHANGED <<store_vars, integration_tokens, verification_token,
                   webhook, token_vars, endpoint_calls>>

\* --------------------------------------------------- Notion webhook
\* The columns class IntegrationToken maps.  The helpers of
\* integration_endpoints.py read and write IntegrationToken.webhook_primary_id,
\* which is not among them: evaluating that attribute raises AttributeError.
IntegrationTokenColumns ==
    {"id", "user_id", "integration_type", "access_token", "refresh_token",
     "token_metadata", "created_at", "updated_at"}

\* The names bound in the module namespace of integration_endpoints.py that
\* the webhook handler uses (imports of lines 1-17 and the module's own
\* definitions); create_or_update_notion_page is imported only inside
\* _process_notion_page_event (line 825).
endpoint_globals ==
    {"json", "os", "HTTPException", "NotionWebhookEvent", "WebhookResponse",
     "_verify_notion_signature", "_find_tokens_by_bot_ids"}

\* bot_ids = [item["id"] for item in accessible_by if item["type"] == "bot"]
RECURSIVE bot_ids_of(_)
bot_ids_of(accessible_by) ==
    IF accessible_by = <<>> THEN <<>>
    ELSE IF Head(accessible_by).type = "bot"
    THEN <<Head(accessible_by).id>> \o bot_ids_of(Tail(accessible_by))
    ELSE bot_ids_of(Tail(accessible_by))

Elems(seq) == {seq[i] : i \in 1 .. Len(seq)}

\* Lines 343-367: the Notion rows whose webhook_primary_id is in bot_ids.
_find_tokens_by_bot_ids(bot_ids) ==
    IF bot_ids = <<>> THEN [raised |-> "none", tokens |-> {}]
    ELSE IF "webhook_primary_id" \notin IntegrationTokenColumns
    THEN [raised |-> "AttributeError", tokens |-> {}]
    ELSE [raised |-> "none",
          tokens |-> {k \in integration_tokens :
                         /\ k.integration_type = "notion"
                         /\ k.webhook_primary_id \in Elems(bot_ids)}]

Response(status_code, status, message, verified, looked_up, dispatched) ==
    [status_code |-> status_code, status |-> status, message |-> message,
     verified |-> verified, looked_up |-> looked_up,
     dispatched |-> dispatched]

\* The text of one accessible_by array.
RECURSIVE accessible_by_text(_)
accessible_by_text(accessible_by) ==
    IF accessible_by = <<>> THEN ""
    ELSE "{id:" \o Head(accessible_by).id \o ",type:"
         \o Head(accessible_by).type \o "}"
         \o accessible_by_text(Tail(accessible_by))

\* The raw body a delivery carries, as the signature covers it: the text
\* of its fields in one fixed order.
BodyOf(request) ==
    request.kind \o "|" \o request.type \o "|["
    \o accessible_by_text(request.accessible_by) \o "]|"
    \o request.entity_id \o "|" \o request.verification_token

\* A challenge test that also requires the payload to carry no event type.
is_bare_verification_challenge(request) ==
    request.verification_token # None /\ request.type = "none"

\* Line 267: `if "verification_token" in payload_dict`.
is_verification_challenge(request) == request.verification_token # None

\* Lines 256-340: the response of handle_notion_webhook to `request`, and
\* the background tasks it has queued (user_id, page_id, notion_token).
notion_webhook_response(request) ==
    LET signed == /\ request.signature \notin {NoHeader, EmptyHeader}
                  /\ verification_token \notin {None, ""}
        valid == _verify_notion_signature(BodyOf(request),
                     verification_token, request.signature)
        verified == IF ~signed THEN "skipped"
                    ELSE IF valid THEN "passed" ELSE "failed"
        bot_ids == bot_ids_of(request.accessible_by)
        found == _find_tokens_by_bot_ids(bot_ids)
    IN  IF request.kind = "undecodable"
        THEN Response(500, "error", "UnicodeDecodeError", "none", FALSE, {})
        ELSE IF request.kind = "invalid_json"
        THEN Response(400, "error", "Invalid JSON payload", "none", FALSE, {})
        ELSE IF is_verification_challenge(request)
        THEN Response(200, "ok", "ok", "none", FALSE, {})
        ELSE IF request.kind = "invalid_event"
        THEN Response(500, "error", "ValidationError", "none", FALSE, {})
        ELSE IF verified = "failed"
        THEN Response(401, "error", "Invalid webhook signature", verified,
                      FALSE, {})
        ELSE IF bot_ids = <<>>
        THEN Response(200, "success", "No bot_ids found in webhook event",
                      verified, FALSE, {})
        ELSE IF found.raised # "none"
        THEN Response(500, "error", found.raised, verified, TRUE, {})
        ELSE IF found.tokens = {}
        THEN Response(200, "success", "No matching users found", verified,
                      TRUE, {})
        ELSE IF request.type \in {"page.created", "page.content_updated"}
        THEN IF "create_or_update_notion_page" \notin endpoint_globals
             THEN Response(500, "error", "NameError", verified, TRUE, {})
             ELSE Response(200, "success", "Queued page update", verified,
                      TRUE,
                      {[user_id |-> k.user_id, page_id |-> request.entity_id,
                        notion_token |-> k.access_token] :
                          k \in found.tokens})
        ELSE Response(200, "success", "acknowledged but not processed",
                      verified, TRUE, {})

NoDelivery ==
    [handled |-> FALSE,
     request |-> [kind |-> "none", type |-> "none", accessible_by |-> <<>>,
                  entity_id |-> None, verification_token |-> None,
                  signature |-> NoHeader],
     response |-> Response(0, "none", "none", "none", FALSE, {})]

\* POST /integrations/webhook/notion: one delivery, handled to its response
\* (the handler suspends only to read the body).
handle_notion_webhook(request) ==
    /\ webhook' = [handled |-> TRUE, request |-> request,
                   response |-> notion_webhook_response(request)]
    /\ UNCHANGED <<store_vars, integration_tokens, verification_token,
                   verify_call, token_vars, endpoint_calls>>

EventTypes ==
    {"page.created", "page.content_updated", "page.deleted", "comment.created"}

AccessibleBy ==
    {<<>>,
     <<[id |-> "A", type |-> "bot"]>>,
     <<[id |-> "C", type |-> "bot"]>>,
     <<[id |-> "A", type |-> "person"]>>,
     <<[id |-> "A", type |-> "bot"], [id |-> "B", type |-> "bot"]>>,
     <<[id |-> "P", type |-> "person"], [id |-> "B", type |-> "bot"],
       [id |-> "B", type |-> "bot"]>>}

\* A payload with the key "verification_token" is the verification
\* challenge (line 267), alone or beside the fields of an event; events
\* carry no such key.  The other bodies are
\* bytes that are not UTF-8 (body.decode() raises UnicodeDecodeError), text
\* that is not JSON (json.loads raises JSONDecodeError) and JSON that
\* NotionWebhookEvent.model_validate rejects (ValidationError); only
\* JSONDecodeError is turned into a 400 (lines 261-264), the others reach
\* the handler of lines 338-340.
Payloads ==
    [kind : {"event"}, type : EventTypes, accessible_by : AccessibleBy,
     entity_id : {"p1"}, verification_token : {None}]
    \cup [kind : {"undecodable", "invalid_json", "invalid_event"},
          type : {"none"}, accessible_by : {<<>>}, entity_id : {None},
          verification_token : {None}]
    \cup [kind : {"verification"},
          type : {"none"}, accessible_by : {<<>>}, entity_id : {None},
          verification_token : Secrets]
    \cup [kind : {"verification"},
          type : {"page.content_updated"},
          accessible_by : {<<[id |-> "A", type |-> "bot"]>>},
          entity_id : {"p1"}, verification_token : Secrets]

\* Deliveries: a payload with no signature header, with the header a holder
\* of one of the secrets computes for it, or with a malformed header.
Signatures(b) ==
    {NoHeader, EmptyHeader}
    \cup {SignatureHeader(BodyOf(b), k) : k \in Secrets}
    \cup {<<hexdigest("s1", BodyOf(b))>>}

Requests ==
    UNION {{[kind |-> b.kind, type |-> b.type,
             accessible_by |-> b.accessible_by, entity_id |-> b.entity_id,
             verification_token |-> b.verification_token,
             signature |-> h] : h \in Signatures(b)} : b \in Payloads}

\* Stored connections: rows of integration_tokens that respect
\* UniqueConstraint('user_id', 'integration_type').
NotionConnections ==
    {IntegrationToken("u1", "notion", "tokA", None, NoExpiry, "A"),
     IntegrationToken("u2", "notion", "tokB", None, NoExpiry, "B"),
     IntegrationToken("u2", "notion", "tokA2", None, NoExpiry, "A")}

uq_user_integration_type(rows) ==
    \A k1, k2 \in rows :
        (k1.user_id = k2.user_id
         /\ k1.integration_type = k2.integration_type) => k1 = k2


\* ------------------------------------------------------- Gmail credentials
\* timedelta(minutes=5): a token is refreshed when it expires within this
\* many minutes.
RefreshMargin == 5

\* expires_in of a refresh response, in minutes.
ExpiresIn == {6, 10}

\* The token endpoint's answer to a refresh request.
RefreshResponses ==
    [status_code : {200}, expires_in : ExpiresIn]
    \cup [status_code : {400}, expires_in : {0}]

NoRecord == IntegrationToken(None, None, None, None, NoExpiry, None)

NoTokenCall ==
    [path |-> "none", pc |-> "idle", utcnow |-> 0, token_record |-> NoRecord,
     attempted |-> FALSE, contacted |-> FALSE, refreshed |-> FALSE,
     finished_at |-> 0, new_expires_at |-> NoExpiry,
     outcome |-> "none", access_token |-> None, credentials |-> "unread"]

\* select(IntegrationToken).where(user_id == ..., integration_type == ...)
\* .scalar_one_or_none(), as a set of at most one row.
select_integration_token(user_id, integration_type) ==
    {k \in integration_tokens :
        k.user_id = user_id /\ k.integration_type = integration_type}

token_needs_refresh_strict(token_record, utcnow) ==
    IF token_record.expires_at = NoExpiry THEN FALSE
    ELSE utcnow > token_record.expires_at - RefreshMargin

\* gmail_importer.py lines 76-90.
_token_needs_refresh(token_record, utcnow) ==
    IF token_record.expires_at = NoExpiry THEN FALSE
    ELSE utcnow >= token_record.expires_at - RefreshMargin

\* integration_endpoints.py lines 690-697: the test _refresh_token_if_needed
\* makes before refreshing.
expires_within_buffer(token_record, utcnow) ==
    IF token_record.expires_at = NoExpiry THEN FALSE
    ELSE utcnow + RefreshMargin >= token_record.expires_at

\* Session.commit() on a loaded row: the UPDATE carries the attributes the
\* session saw assigned (`dirty`) and no others.  If the row is gone the
\* table is left as it is.
commit_update(token_record, values, dirty) ==
    LET rows == select_integration_token(token_record.user_id,
                                         token_record.integration_type)
    IN  (integration_tokens \ rows)
        \cup {[a \in DOMAIN k |-> IF a \in dirty THEN values[a] ELSE k[a]] :
                 k \in rows}

\* The access token the provider issues next.
next_access_token == "t" \o ToString(issued + 1)

TokenReturn(call, access_token) ==
    [call EXCEPT !.pc = "done", !.outcome = "token",
                 !.access_token = access_token, !.finished_at = now]

TokenRaise(call, error) ==
    [call EXCEPT !.pc = "done", !.outcome = error, !.finished_at = now]

\* GOOGLE_CLIENT_ID and GOOGLE_CLIENT_SECRET as _refresh_gmail_token reads
\* them from the environment: both set, or not
\* (integration_endpoints.py lines 638-642, gmail_importer.py lines 107-111).
\* A call records the environment it runs in, whether it reads it or not.
OAuthCredentials == {"configured", "unset"}

\* _refresh_token_if_needed, lines 689-704 and 716-727, up to the await of
\* the refresh request: the locals of the call made with token_record.
\* `not token_record.refresh_token` holds for None and for ''.
refresh_token_if_needed_entry(t, token_record, credentials) ==
    LET call == [token_calls[t] EXCEPT !.path = "endpoint",
                    !.utcnow = now, !.token_record = token_record,
                    !.credentials = credentials]
    IN  IF ~expires_within_buffer(token_record, now)
        THEN TokenReturn(call, token_record.access_token)
        ELSE IF token_record.refresh_token \in {None, ""}
        THEN \* raise Exception(...) inside the try: the except clause
             \* of line 720 answers with the token of the record.
             TokenReturn([call EXCEPT !.attempted = TRUE],
                         token_record.access_token)
        ELSE IF credentials = "unset"
        THEN \* _refresh_gmail_token raises before any request (lines
             \* 641-642); the same except clause answers.
             TokenReturn([call EXCEPT !.attempted = TRUE],
                         token_record.access_token)
        ELSE [call EXCEPT !.attempted = TRUE, !.pc = "refreshing"]

\* A call of _refresh_token_if_needed on the stored connection of user_id.
\* disconnect_gmail loads token_record and calls it in the same step.
refresh_token_if_needed_call(t, user_id) ==
    /\ token_calls[t].pc = "idle"
    /\ endpoint_calls[t].pc = "idle"
    /\ select_integration_token(user_id, "gmail") # {}
    /\ \E credentials \in OAuthCredentials :
         LET token_record ==
               CHOOSE k \in select_integration_token(user_id, "gmail") : TRUE
         IN  token_calls' = [token_calls EXCEPT ![t] =
               refresh_token_if_needed_entry(t, token_record, credentials)]
    /\ UNCHANGED <<store_vars, integration_tokens, verification_token,
                   webhook, verify_call, now, issued, endpoint_calls>>

\* _refresh_token_if_needed, lines 702-724, from the answer of the token
\* endpoint (_refresh_gmail_token, lines 625-672).  access_token is assigned;
\* token_metadata is changed in place by .update(), which a JSON column
\* does not report to the session.  When the row is gone, the UPDATE of
\* db.commit() matches no row and raises StaleDataError; the except clause
\* of line 720 then reads token_record.access_token of the deleted row,
\* which raises again, and disconnect_gmail (lines 1023-1030), awaiting the
\* call, answers 500.
refresh_token_if_needed_response(t, response) ==
    /\ token_calls[t].pc = "refreshing"
    /\ token_calls[t].path = "endpoint"
    /\ LET call == [token_calls[t] EXCEPT !.contacted = TRUE]
           token_record == call.token_record
           gone == select_integration_token(token_record.user_id,
                       token_record.integration_type) = {}
       IN  IF response.status_code # 200
           THEN /\ token_calls' = [token_calls EXCEPT ![t] =
                      TokenReturn(call, token_record.access_token)]
                /\ UNCHANGED <<integration_tokens, issued, endpoint_calls>>
           ELSE LET expires_at == now + response.expires_in
                    values == [token_record EXCEPT
                                  !.access_token = next_access_token,
                                  !.expires_at = expires_at]
                IN  /\ integration_tokens' = commit_update(token_record,
                           values, {"access_token"})
                    /\ issued' = issued + 1
                    /\ token_calls' = [token_calls EXCEPT ![t] =
                          IF gone
                          THEN TokenRaise(call, "ObjectDeletedError")
                          ELSE TokenReturn([call EXCEPT !.refreshed = TRUE,
                                               !.new_expires_at = expires_at],
                                           next_access_token)]
                    /\ endpoint_calls' =
                          IF gone /\ endpoint_calls[t].kind = "disconnect_gmail"
                          THEN [endpoint_calls EXCEPT ![t] =
                                  [@ EXCEPT !.pc = "done",
                                     !.status_code = 500,
                                     !.status = "error",
                                     !.detail = "Failed to disconnect Gmail"]]
                          ELSE endpoint_calls
    /\ UNCHANGED <<store_vars, verification_token, webhook, verify_call, now>>

\* get_stored_gmail_token, lines 36-54 and 71, up to the await of the
\* refresh request: the locals of the call.  With the OAuth credentials
\* unset _refresh_gmail_token raises before any request (gmail_importer.py
\* lines 110-111) and the except clause of line 67 raises ValueError.
get_stored_gmail_token_entry(t, user_id, credentials) ==
    LET found == select_integration_token(user_id, "gmail")
        token_record == IF found = {} THEN NoRecord
                        ELSE CHOOSE k \in found : TRUE
        call == [token_calls[t] EXCEPT !.path = "importer",
                    !.utcnow = now, !.token_record = token_record,
                    !.credentials = credentials]
    IN  IF found = {} THEN TokenRaise(call, "ValueError")
        ELSE IF ~_token_needs_refresh(token_record, now)
        THEN TokenReturn(call, token_record.access_token)
        ELSE IF credentials = "unset"
        THEN TokenRaise([call EXCEPT !.attempted = TRUE], "ValueError")
        ELSE [call EXCEPT !.attempted = TRUE, !.pc = "refreshing"]

\* A call of get_stored_gmail_token(user_id) up to its return, its
\* exception or its first await.
get_stored_gmail_token_call(t, user_id) ==
    /\ token_calls[t].pc = "idle"
    /\ endpoint_calls[t].pc = "idle"
    /\ \E credentials \in OAuthCredentials :
         token_calls' = [token_calls EXCEPT ![t] =
             get_stored_gmail_token_entry(t, user_id, credentials)]
    /\ UNCHANGED <<store_vars, integration_tokens, verification_token,
                   webhook, verify_call, now, issued, endpoint_calls>>

\* import_latest_gmail_emails, lines 146-165, up to its first await or its
\* return: the task and the token call it leaves.  With a token the session
\* is opened and the listing awaited.  Without one (`not gmail_token`: None,
\* the default, or ''): get_stored_gmail_token up to its return, its
\* ValueError, which is answered with the error dict, or the await of its
\* refresh request.
import_latest_gmail_emails_entry(t, user_id, gmail_token, credentials) ==
    LET me == [IdleTask EXCEPT !.kind = "gmail_bulk", !.user_id = user_id]
        call == get_stored_gmail_token_entry(t, user_id, credentials)
    IN  IF gmail_token \notin {None, ""}
        THEN [task |-> [me EXCEPT !.pc = "list"], call |-> token_calls[t]]
        ELSE IF call.pc = "refreshing"
        THEN [task |-> [me EXCEPT !.pc = "token"], call |-> call]
        ELSE IF call.outcome = "token"
        THEN [task |-> [me EXCEPT !.pc = "list"], call |-> call]
        ELSE [task |-> [me EXCEPT !.pc = "done", !.result =
                          Return("error", "none",
                              IF call.attempted
                              THEN "Gmail token expired and refresh failed"
                              ELSE "No Gmail token found for user")],
              call |-> call]

\* A call of import_latest_gmail_emails(user_id, gmail_token); the stored
\* token is read in a call of its own.
import_latest_gmail_emails_start(t, user_id, gmail_token) ==
    /\ IsNext(t)
    /\ gmail_token \in {None, ""} =>
           token_calls[t].pc = "idle" /\ endpoint_calls[t].pc = "idle"
    /\ \E credentials \in OAuthCredentials :
         LET entry == import_latest_gmail_emails_entry(t, user_id,
                          gmail_token, credentials)
         IN  /\ tasks' = [tasks EXCEPT ![t] = entry.task]
             /\ token_calls' = [token_calls EXCEPT ![t] = entry.call]
    /\ UNCHANGED <<raw_entries, next_id, integration_tokens,
                   verification_token, webhook, verify_call, now, issued,
                   endpoint_calls, notified, queue_configured>>

\* get_stored_gmail_token, lines 51-71, from the answer of the token
\* endpoint (_refresh_gmail_token, lines 93-130).  access_token is assigned
\* and token_metadata is assigned a new dict.  When import_latest_gmail_emails
\* awaits the call (line 149), it goes on in the same step: to the listing
\* with the token, or to its error dict on ValueError (lines 150-155).
get_stored_gmail_token_response(t, response) ==
    /\ token_calls[t].pc = "refreshing"
    /\ token_calls[t].path = "importer"
    /\ LET call == [token_calls[t] EXCEPT !.contacted = TRUE]
           token_record == call.token_record
       IN  IF response.status_code # 200
           THEN /\ token_calls' = [token_calls EXCEPT ![t] =
                      TokenRaise(call, "ValueError")]
                /\ UNCHANGED <<integration_tokens, issued>>
           ELSE LET expires_at == now + response.expires_in
                    values == [token_record EXCEPT
                                  !.access_token = next_access_token,
                                  !.expires_at = expires_at]
                IN  /\ integration_tokens' = commit_update(token_record,
                           values, {"access_token", "expires_at"})
                    /\ issued' = issued + 1
                    /\ token_calls' = [token_calls EXCEPT ![t] =
                          IF select_integration_token(token_record.user_id,
                                 token_record.integration_type) = {}
                          THEN \* The UPDATE matches no row: db.commit()
                               \* raises StaleDataError inside the try.
                               TokenRaise(call, "ValueError")
                          ELSE TokenReturn([call EXCEPT !.refreshed = TRUE,
                                               !.new_expires_at = expires_at],
                                           next_access_token)]
    /\ tasks' = IF tasks[t].kind = "gmail_bulk" /\ tasks[t].pc = "token"
                THEN [tasks EXCEPT ![t] =
                        IF token_calls'[t].outcome = "token"
                        THEN [@ EXCEPT !.pc = "list"]
                        ELSE [@ EXCEPT !.pc = "done", !.result =
                                 Return("error", "none",
                                   "Gmail token expired and refresh failed")]]
                ELSE tasks
    /\ UNCHANGED <<raw_entries, next_id, notified, queue_configured,
                   verification_token, webhook, verify_call, now,
                   endpoint_calls>>

\* The provider rejects a refresh request that carries no refresh token.
Answers(t) ==
    {r \in RefreshResponses :
        token_calls[t].token_record.refresh_token \in {None, ""}
            => r.status_code # 200}

\* Time passes.
Tick ==
    /\ now < MaxTime
    /\ now' = now + 1
    /\ UNCHANGED <<store_vars, integration_tokens, verification_token,
                   webhook, verify_call, token_calls, issued,
                   endpoint_calls>>


\* ------------------------------------------------- connection endpoints
\* An HTTP status of 0 stands for a request that got no answer (httpx
\* raises a transport error).
NetworkError == 0

\* The status recorded for a request that was not made.
NotAsked == -1

NoEndpointCall ==
    [kind |-> "none", pc |-> "idle", user_id |-> None,
     webhook_primary_id |-> None, exchanged |-> FALSE,
     revoke_token |-> FALSE,
     stop_status |-> NotAsked, revoke_status |-> NotAsked,
     status_code |-> 0, status |-> "none", detail |-> "none",
     token_revoked |-> FALSE, revocation_error |-> None,
     is_connected |-> FALSE,
     failure |-> "none", access_token |-> None, refresh_token |-> None,
     scheduled |-> "none", import_task |-> 0]

\* The endpoint returns: HTTP 200 with the body's status and message.
EndpointReturn(call, status, detail) ==
    [call EXCEPT !.pc = "done", !.status_code = 200, !.status = status,
                 !.detail = detail]

\* raise HTTPException(status_code, detail), or an exception the framework
\* answers with 500.
EndpointRaise(call, status_code, detail) ==
    [call EXCEPT !.pc = "done", !.status_code = status_code,
                 !.status = "error", !.detail = detail]

\* Request ids are handed out in order of arrival; a request and a
\* background call for a token never share an id.
IsNextCall(t) ==
    /\ endpoint_calls[t].pc = "idle"
    /\ token_calls[t].pc = "idle"
    /\ \A s \in Tasks :
           s < t => endpoint_calls[s].pc # "idle" \/ token_calls[s].pc # "idle"

\* What the Gmail API answers to users/me/stop, and Google to the revoke
\* request.
StopResponses == {200, 204, 404, 401, 500, NetworkError}

RevokeResponses == {200, 400, NetworkError}

\* disconnect_gmail, lines 969-985: the lookup of the stored token and the
\* call of _refresh_token_if_needed up to its first await.
disconnect_gmail_select(t, user_id, revoke_token) ==
    /\ IsNextCall(t)
    /\ \E credentials \in OAuthCredentials :
         LET found == select_integration_token(user_id, "gmail")
             call == [endpoint_calls[t] EXCEPT !.kind = "disconnect_gmail",
                         !.user_id = user_id, !.revoke_token = revoke_token]
         IN  IF found = {}
             THEN /\ endpoint_calls' = [endpoint_calls EXCEPT ![t] =
                        EndpointRaise(call, 404,
                                      "No Gmail connection found for user")]
                  /\ UNCHANGED token_calls
             ELSE /\ endpoint_calls' = [endpoint_calls EXCEPT ![t] =
                        [call EXCEPT !.pc = "stop_watch"]]
                  /\ token_calls' = [token_calls EXCEPT ![t] =
                        refresh_token_if_needed_entry(t,
                            CHOOSE k \in found : TRUE, credentials)]
    /\ UNCHANGED <<store_vars, integration_tokens, verification_token,
                   webhook, verify_call, now, issued>>

revoke_result_no_error(response) ==
    IF response = 200
    THEN [revoked |-> TRUE, error |-> None]
    ELSE [revoked |-> FALSE, error |-> None]

\* Lines 989-1009: revoke_result after the answer to the revoke request.
revoke_result(response) ==
    IF response = 200
    THEN [revoked |-> TRUE, error |-> None]
    ELSE IF response = NetworkError
    THEN [revoked |-> FALSE, error |-> "Revocation request failed"]
    ELSE [revoked |-> FALSE, error |-> "Google revocation failed"]

\* Lines 1011-1021: db.delete(token_record), db.commit() and the success
\* answer.
disconnect_gmail_delete(t, call, result) ==
    /\ integration_tokens' = integration_tokens
           \ select_integration_token(call.user_id, "gmail")
    /\ endpoint_calls' = [endpoint_calls EXCEPT ![t] =
          EndpointReturn([call EXCEPT !.token_revoked = result.revoked,
                                      !.revocation_error = result.error],
                         "success", "Gmail disconnected successfully")]

\* disconnect_gmail, lines 987-994 and 1023-1030, from the answer to the
\* stop request of _stop_gmail_watch (lines 741-762), issued with the token
\* _refresh_token_if_needed returned.
disconnect_gmail_stop_watch(t, response) ==
    /\ endpoint_calls[t].kind = "disconnect_gmail"
    /\ endpoint_calls[t].pc = "stop_watch"
    /\ token_calls[t].pc = "done"
    /\ LET call == [endpoint_calls[t] EXCEPT !.stop_status = response]
           stored == select_integration_token(call.user_id, "gmail")
           \* token_record.access_token as line 994 reads it: the value
           \* loaded at the lookup, or, after the commit of a refresh has
           \* expired the record, the value of the row now.
           access_token ==
               IF token_calls[t].refreshed /\ stored # {}
               THEN (CHOOSE k \in stored : TRUE).access_token
               ELSE token_calls[t].token_record.access_token
       IN  IF response \notin {200, 204, 404}
           THEN \* _stop_gmail_watch raises; the except clause of line 1025
                \* rolls back and answers 500.
                /\ endpoint_calls' = [endpoint_calls EXCEPT ![t] =
                      EndpointRaise(call, 500, "Failed to disconnect Gmail")]
                /\ UNCHANGED integration_tokens
           ELSE IF /\ token_calls[t].refreshed
                   /\ select_integration_token(call.user_id, "gmail") = {}
           THEN \* The commit of the refresh expired token_record; the read
                \* of token_record.access_token (line 994) or, without
                \* revoke_token, the flush of db.delete (lines 1013-1014)
                \* loads it again, and a row deleted meanwhile raises
                \* ObjectDeletedError.
                /\ endpoint_calls' = [endpoint_calls EXCEPT ![t] =
                      EndpointRaise(call, 500, "Failed to disconnect Gmail")]
                /\ UNCHANGED integration_tokens
           ELSE IF call.revoke_token /\ access_token \notin {None, ""}
           THEN /\ endpoint_calls' = [endpoint_calls EXCEPT ![t] =
                      [call EXCEPT !.pc = "revoke"]]
                /\ UNCHANGED integration_tokens
           ELSE disconnect_gmail_delete(t, call,
                    [revoked |-> FALSE, error |-> None])
    /\ UNCHANGED <<store_vars, verification_token, webhook, verify_call,
                   token_vars>>

\* disconnect_gmail, lines 996-1021, from the answer to the revoke request.
disconnect_gmail_revoke(t, response) ==
    /\ endpoint_calls[t].kind = "disconnect_gmail"
    /\ endpoint_calls[t].pc = "revoke"
    /\ disconnect_gmail_delete(t,
           [endpoint_calls[t] EXCEPT !.revoke_status = response],
           revoke_result(response))
    /\ UNCHANGED <<store_vars, verification_token, webhook, verify_call,
                   token_vars>>



\* db.delete(token_record) and db.commit() (lines 221-222): the rows of
\* integration_tokens afterwards.
delete_and_commit(found) == integration_tokens \ found

\* disconnect_notion, lines 197-236.  The handler never suspends.  The
\* lookup is scalar_one_or_none(): more than one row raises
\* MultipleResultsFound, which the except clause of line 231 answers 500.
disconnect_notion(t, user_id) ==
    /\ IsNextCall(t)
    /\ LET found == select_integration_token(user_id, "notion")
           call == [endpoint_calls[t] EXCEPT !.kind = "disconnect_notion",
                       !.user_id = user_id]
       IN  IF found = {}
           THEN /\ endpoint_calls' = [endpoint_calls EXCEPT ![t] =
                      EndpointRaise(call, 404,
                                    "No Notion connection found for user")]
                /\ UNCHANGED integration_tokens
           ELSE IF Cardinality(found) > 1
           THEN /\ endpoint_calls' = [endpoint_calls EXCEPT ![t] =
                      EndpointRaise(call, 500,
                                    "Failed to disconnect Notion")]
                /\ UNCHANGED integration_tokens
           ELSE /\ endpoint_calls' = [endpoint_calls EXCEPT ![t] =
                      EndpointReturn(call, "success",
                                     "Notion disconnected successfully")]
                /\ integration_tokens' = delete_and_commit(found)
    /\ UNCHANGED <<store_vars, verification_token, webhook, verify_call,
                   token_vars>>

\* get_notion_status, lines 153-194: is_connected of the answer.
get_notion_status(t, user_id) ==
    /\ IsNextCall(t)
    /\ LET found == select_integration_token(user_id, "notion")
           call == [endpoint_calls[t] EXCEPT !.kind = "get_notion_status",
                       !.user_id = user_id]
       IN  endpoint_calls' = [endpoint_calls EXCEPT ![t] =
             IF Cardinality(found) > 1
             THEN EndpointRaise(call, 500, "Failed to get Notion status")
             ELSE EndpointReturn([call EXCEPT !.is_connected = found # {}],
                                 "ok", "status")]
    /\ UNCHANGED <<store_vars, integration_tokens, verification_token,
                   webhook, verify_call, token_vars>>

\* token_metadata as the upsert receives it: None or an empty dict, which
\* `if token_metadata` skips, or a dict, of which the model keeps the
\* expires_at entry (NoExpiry when the dict has none, as the workspace
\* metadata of connect_notion, lines 120-126).
NoMetadata == <<>>

metadata_expires_at(token_metadata) ==
    IF token_metadata = NoMetadata THEN NoExpiry ELSE token_metadata[1]

store_integration_token_insert_only(user_id, integration_type, access_token, refresh_token, webhook_primary_id, token_metadata) ==
    [raised |-> "none",
     rows |-> integration_tokens \cup
              {IntegrationToken(user_id, integration_type, access_token,
                                refresh_token, metadata_expires_at(token_metadata),
                                webhook_primary_id)}]

\* _store_integration_token, lines 533-578: the exception it raises, if any,
\* and the rows of integration_tokens after it.  The tests of lines 549,
\* 560, 562 and 564 are truth tests: None and '' (an empty dict for
\* token_metadata) are skipped alike.  Reading
\* IntegrationToken.webhook_primary_id on the class raises AttributeError and
\* the constructor rejects the keyword with TypeError, as the class maps no
\* such column; an existing instance accepts the assignment as a plain
\* attribute that no UPDATE carries.
_store_integration_token(user_id, integration_type, access_token, refresh_token, webhook_primary_id, token_metadata) ==
    LET mapped == "webhook_primary_id" \in IntegrationTokenColumns
        existing == {k \in integration_tokens :
                        /\ k.user_id = user_id
                        /\ k.integration_type = integration_type
                        /\ webhook_primary_id \notin {None, ""}
                               => k.webhook_primary_id = webhook_primary_id}
        new_token == IntegrationToken(user_id, integration_type,
                         access_token, refresh_token,
                         metadata_expires_at(token_metadata),
                         webhook_primary_id)
        update(k) == [k EXCEPT
            !.access_token = access_token,
            !.refresh_token = IF refresh_token \notin {None, ""}
                              THEN refresh_token ELSE @,
            !.webhook_primary_id =
                IF webhook_primary_id \notin {None, ""} /\ mapped
                THEN webhook_primary_id ELSE @,
            !.expires_at = IF token_metadata # NoMetadata
                           THEN metadata_expires_at(token_metadata) ELSE @]
    IN  IF webhook_primary_id \notin {None, ""} /\ ~mapped
        THEN [raised |-> "AttributeError", rows |-> integration_tokens]
        ELSE IF Cardinality(existing) > 1
        THEN [raised |-> "MultipleResultsFound", rows |-> integration_tokens]
        ELSE IF existing # {}
        THEN [raised |-> "none",
              rows |-> (integration_tokens \ existing)
                       \cup {update(k) : k \in existing}]
        ELSE IF ~mapped
        THEN [raised |-> "TypeError", rows |-> integration_tokens]
        ELSE IF ~uq_user_integration_type(integration_tokens
                                          \cup {new_token})
        THEN [raised |-> "IntegrityError", rows |-> integration_tokens]
        ELSE [raised |-> "none",
              rows |-> integration_tokens \cup {new_token}]

\* The outcome of the exchange of an OAuth code: the access token and the
\* account it belongs to (Notion: bot_id; Gmail: the emailAddress of the
\* profile, None when the profile carries none), or the way it failed: the
\* OAuth credentials are not in the environment, the provider refused the
\* code, or (Gmail) the profile request was refused.
NotionExchanges ==
    [ok : {TRUE}, failure : {"none"}, access_token : {"n1"},
     refresh_token : {None}, account : {"A", "B"}]
    \cup [ok : {TRUE}, failure : {"none"}, access_token : {"n1"},
          refresh_token : {"nr1"}, account : {None}]
    \cup [ok : {FALSE}, failure : {"not_configured", "rejected"},
          access_token : {None}, refresh_token : {None}, account : {None}]

GmailExchanges ==
    [ok : {TRUE}, failure : {"none"}, access_token : {"g1", "g2"},
     refresh_token : {"r1"}, account : {"e1", None}, expires_in : {10}]
    \cup [ok : {FALSE}, failure : {"not_configured", "rejected", "profile"},
          access_token : {None}, refresh_token : {None}, account : {None},
          expires_in : {0}]

\* The exchanges of a consent given again: the provider may answer without
\* a refresh token (token_data.get("refresh_token") is None), and any of the
\* strings of the answer may be empty.
GmailReconnects ==
    [ok : {TRUE}, failure : {"none"}, access_token : {"g1"},
     refresh_token : {None, "", "r2"}, account : {"e1", None, ""},
     expires_in : {10}]
    \cup [ok : {TRUE}, failure : {"none"}, access_token : {""},
          refresh_token : {"r2"}, account : {None}, expires_in : {10}]

NotionReconnects ==
    [ok : {TRUE}, failure : {"none"}, access_token : {"n1", ""},
     refresh_token : {None}, account : {None, ""}]

\* The exchanges in which the provider answered the token request.
Answered(exchanges) ==
    {x \in exchanges : x.failure \in {"none", "rejected"}}

\* The HTTPException the exchange raises (lines 422-426 and 444-448,
\* 472-476, 494-498 and 514-518).
exchange_status_code(failure) ==
    IF failure = "rejected" THEN 400 ELSE 500

exchange_detail(kind, failure) ==
    IF failure = "not_configured"
    THEN IF kind = "connect_notion"
         THEN "Notion OAuth credentials not configured"
         ELSE "Gmail OAuth credentials not configured"
    ELSE IF failure = "rejected" THEN "Failed to exchange code for token"
    ELSE "Failed to fetch user profile"

schedule_then_store(call, stored, task) ==
    IF stored.raised # "none"
    THEN [call |-> EndpointRaise([call EXCEPT !.scheduled = task], 500,
                                 stored.raised),
          rows |-> integration_tokens]
    ELSE [call |-> EndpointReturn([call EXCEPT !.scheduled = task],
                                  "started", "Import started"),
          rows |-> stored.rows]

\* The steps of a connect endpoint after the exchange (lines 113-145,
\* 920-957): _store_integration_token, whose exception ends the request
\* with 500; then background_tasks.add_task(task, ...) and the response
\* with status "started".
store_then_schedule(call, stored, task) ==
    IF stored.raised # "none"
    THEN [call |-> EndpointRaise(call, 500, stored.raised),
          rows |-> integration_tokens]
    ELSE [call |-> EndpointReturn([call EXCEPT !.scheduled = task],
                                  "started", "Import started"),
          rows |-> stored.rows]

\* connect_notion and connect_gmail up to the await of the code exchange
\* (lines 102-104, 916-917).
connect_request(t, kind, user_id) ==
    /\ IsNextCall(t)
    /\ endpoint_calls' = [endpoint_calls EXCEPT ![t] =
          [@ EXCEPT !.kind = kind, !.user_id = user_id, !.pc = "exchange"]]
    /\ UNCHANGED <<store_vars, integration_tokens, verification_token,
                   webhook, verify_call, token_vars>>

\* connect_notion, lines 104-151, from the answer to the code exchange:
\* the credential upsert, background_tasks.add_task and the answer.  Every
\* exception, the HTTPException of the exchange included, is caught at line
\* 147 and answered 500.
connect_notion_exchange(t, oauth_data) ==
    /\ endpoint_calls[t].kind = "connect_notion"
    /\ endpoint_calls[t].pc = "exchange"
    /\ LET call == [endpoint_calls[t] EXCEPT
                       !.exchanged = oauth_data.ok,
                       !.failure = oauth_data.failure,
                       !.access_token = oauth_data.access_token,
                       !.refresh_token = oauth_data.refresh_token,
                       !.webhook_primary_id = oauth_data.account]
           stored == _store_integration_token(call.user_id, "notion",
                         oauth_data.access_token, oauth_data.refresh_token,
                         oauth_data.account, <<NoExpiry>>)
       IN  IF ~oauth_data.ok
           THEN /\ endpoint_calls' = [endpoint_calls EXCEPT ![t] =
                      EndpointRaise(call, 500,
                          exchange_detail(call.kind, oauth_data.failure))]
                /\ UNCHANGED integration_tokens
           ELSE LET after == store_then_schedule(call, stored,
                                 "_import_notion_pages_background")
                IN  /\ endpoint_calls' = [endpoint_calls EXCEPT ![t] =
                                              after.call]
                    /\ integration_tokens' = after.rows
    /\ UNCHANGED <<store_vars, verification_token, webhook, verify_call,
                   token_vars>>

\* connect_gmail, lines 917-935, from the answer to the code exchange
\* (_exchange_gmail_code_for_tokens, which also reads the profile): the
\* credential upsert and its commit, then the await of the watch request.
\* The HTTPException of the exchange leaves the endpoint as raised, an
\* exception of the upsert is answered 500.
connect_gmail_exchange(t, token_data) ==
    /\ endpoint_calls[t].kind = "connect_gmail"
    /\ endpoint_calls[t].pc = "exchange"
    /\ LET call == [endpoint_calls[t] EXCEPT
                       !.exchanged = token_data.ok,
                       !.failure = token_data.failure,
                       !.access_token = token_data.access_token,
                       !.refresh_token = token_data.refresh_token,
                       !.webhook_primary_id = token_data.account]
           stored == _store_integration_token(call.user_id, "gmail",
                         token_data.access_token, token_data.refresh_token,
                         token_data.account,
                         <<now + token_data.expires_in>>)
       IN  IF ~token_data.ok
           THEN /\ endpoint_calls' = [endpoint_calls EXCEPT ![t] =
                      EndpointRaise(call,
                          exchange_status_code(token_data.failure),
                          exchange_detail(call.kind, token_data.failure))]
                /\ UNCHANGED integration_tokens
           ELSE IF stored.raised # "none"
           THEN /\ endpoint_calls' = [endpoint_calls EXCEPT ![t] =
                      EndpointRaise(call, 500, stored.raised)]
                /\ UNCHANGED integration_tokens
           ELSE /\ endpoint_calls' = [endpoint_calls EXCEPT ![t] =
                      [call EXCEPT !.pc = "watch"]]
                /\ integration_tokens' = stored.rows
    /\ UNCHANGED <<store_vars, verification_token, webhook, verify_call,
                   token_vars>>

\* connect_gmail, lines 935-957, from the end of _setup_gmail_watch (lines
\* 581-622), whose failure is printed and swallowed (lines 934-939):
\* background_tasks.add_task and the answer with status "started".
connect_gmail_watch(t) ==
    /\ endpoint_calls[t].kind = "connect_gmail"
    /\ endpoint_calls[t].pc = "watch"
    /\ endpoint_calls' = [endpoint_calls EXCEPT ![t] =
          EndpointReturn([@ EXCEPT !.scheduled =
                                     "_import_gmail_emails_background"],
                         "started", "Import started")]
    /\ UNCHANGED <<store_vars, integration_tokens, verification_token,
                   webhook, verify_call, token_vars>>


\* The background task a connect endpoint added runs once the response has
\* been sent: _import_notion_pages_background (lines 840-869) calls
\* populate_raw_entries_from_notion, _import_gmail_emails_background (lines
\* 872-901) calls import_latest_gmail_emails, each with the access token of
\* the exchange; the import runs up to its first await, and makes its own
\* test of the token it is handed: an empty one sends it to the stored
\* token, in a call for a token that takes the id of the import.
run_background_task(t, s) ==
    /\ endpoint_calls[t].pc = "done"
    /\ endpoint_calls[t].scheduled # "none"
    /\ endpoint_calls[t].import_task = 0
    /\ IsNext(s)
    /\ endpoint_calls' = [endpoint_calls EXCEPT ![t].import_task = s]
    /\ LET user_id == endpoint_calls[t].user_id
           access_token == endpoint_calls[t].access_token
       IN  IF endpoint_calls[t].scheduled = "_import_notion_pages_background"
           THEN /\ tasks' = [tasks EXCEPT ![s] =
                      populate_raw_entries_from_notion_entry(user_id,
                                                             access_token)]
                /\ UNCHANGED token_calls
           ELSE /\ access_token \in {None, ""} =>
                       /\ token_calls[s].pc = "idle"
                       /\ endpoint_calls[s].kind # "disconnect_gmail"
                /\ \E credentials \in OAuthCredentials :
                     LET entry == import_latest_gmail_emails_entry(s,
                                      user_id, access_token, credentials)
                     IN  /\ tasks' = [tasks EXCEPT ![s] = entry.task]
                         /\ token_calls' = [token_calls EXCEPT ![s] =
                                                entry.call]
    /\ UNCHANGED <<raw_entries, next_id, notified, queue_configured,
                   integration_tokens, verification_token, webhook,
                   verify_call, now, issued>>


\* A call of get_stored_notion_token(user_id), lines 178-205: the function
\* has no await inside, the call runs to its return or its exception.
get_stored_notion_token_call(t, user_id) ==
    /\ IsNextCall(t)
    /\ LET got == get_stored_notion_token(user_id)
           call == [NoTokenCall EXCEPT !.path = "notion",
                                       !.token_record.user_id = user_id]
       IN  token_calls' = [token_calls EXCEPT ![t] =
              IF got.raised = "none"
              THEN TokenReturn(call, got.access_token)
              ELSE TokenRaise(call, got.raised)]
    /\ UNCHANGED <<store_vars, integration_tokens, verification_token,
                   webhook, verify_call, now, issued, endpoint_calls>>

\* ------------------------------------------------------- base64url decoding
\* A base64url text is a sequence of sextets 0..63; Pad stands for '='.
Pad == 64

\* The bytes the decode sites are tried on.
ByteValues == {0, 77, 255}

RECURSIVE SeqsUpTo(_, _)
SeqsUpTo(S, n) ==
    IF n = 0 THEN {<<>>}
    ELSE LET shorter == SeqsUpTo(S, n - 1)
         IN  shorter \cup {Append(s, x) : s \in {q \in shorter : Len(q) = n - 1}, x \in S}

\* base64.urlsafe_b64encode: three bytes make four sextets; one or two
\* bytes left over make two or three sextets and '=' up to four characters.
RECURSIVE urlsafe_b64encode(_)
urlsafe_b64encode(bytes) ==
    IF Len(bytes) = 0 THEN <<>>
    ELSE IF Len(bytes) = 1
         THEN <<bytes[1] \div 4, (bytes[1] % 4) * 16, Pad, Pad>>
    ELSE IF Len(bytes) = 2
         THEN LET v == (bytes[1] * 256 + bytes[2]) * 4
              IN  <<v \div 4096, (v \div 64) % 64, v % 64, Pad>>
    ELSE LET v == bytes[1] * 65536 + bytes[2] * 256 + bytes[3]
         IN  <<v \div 262144, (v \div 4096) % 64, (v \div 64) % 64, v % 64>>
             \o urlsafe_b64encode(SubSeq(bytes, 4, Len(bytes)))

\* str.rstrip('='): what a provider that omits the padding sends.
RECURSIVE rstrip_pad(_)
rstrip_pad(text) ==
    IF Len(text) > 0 /\ text[Len(text)] = Pad
    THEN rstrip_pad(SubSeq(text, 1, Len(text) - 1))
    ELSE text

\* "=" * count; a count of zero or less gives the empty string.
RECURSIVE Pads(_)
Pads(count) == IF count <= 0 THEN <<>> ELSE <<Pad>> \o Pads(count - 1)

DataChars(text) == SelectSeq(text, LAMBDA c : c # Pad)

RECURSIVE decode_quads(_)
decode_quads(chars) ==
    IF Len(chars) < 2 THEN <<>>
    ELSE IF Len(chars) = 2
         THEN <<(chars[1] * 64 + chars[2]) \div 16>>
    ELSE IF Len(chars) = 3
         THEN LET v == (chars[1] * 4096 + chars[2] * 64 + chars[3]) \div 4
              IN  <<v \div 256, v % 256>>
    ELSE LET v == chars[1] * 262144 + chars[2] * 4096 + chars[3] * 64 + chars[4]
         IN  <<v \div 65536, (v \div 256) % 256, v % 256>>
             \o decode_quads(SubSeq(chars, 5, Len(chars)))

\* What binascii.Error leaves in place of the bytes.
DecodeError == <<"binascii.Error">>

\* base64.urlsafe_b64decode of a text whose '=' all stand at its end: the
\* decoder raises when the data characters are one more than a multiple of
\* four or when fewer '=' follow than the last group needs, and passes over
\* every '=' more than that.
urlsafe_b64decode(text) ==
    LET chars == DataChars(text)
        left  == Len(chars) % 4
        pads  == Len(text) - Len(chars)
    IN  IF left = 1 THEN DecodeError
        ELSE IF left # 0 /\ pads < 4 - left THEN DecodeError
        ELSE decode_quads(chars)

\* The number of '=' each decode site appends to the data it is given.
body_padding_none(data) == 0

\* _extract_body_text: data + "=" * (4 - len(data) % 4).
body_padding(data) == 4 - (Len(data) % 4)

\* handle_gmail_webhook: notification.message.data + '=='.
push_padding(data) == 2

site_padding(site, data) ==
    IF site = "_extract_body_text" THEN body_padding(data)
    ELSE push_padding(data)

\* One call of a decode site: the provider encodes `original` and sends it
\* with or without its padding.
DecodeCall(site, original, data) ==
    [site |-> site, original |-> original, data |-> data,
     appended |-> 0, padded |-> <<>>, decoded |-> <<>>, pc |-> "received"]

\* The site pads the data and decodes it; the except clause of either site
\* keeps the error from leaving it.  _extract_body_text does so only under
\* `if data:` (lines 376 and 388): empty data is neither padded nor decoded
\* and contributes no text.
decode_apply ==
    /\ webhook.pc = "received"
    /\ LET appended == site_padding(webhook.site, webhook.data)
           padded   == webhook.data \o Pads(appended)
       IN  IF webhook.site = "_extract_body_text" /\ webhook.data = <<>>
           THEN webhook' = [webhook EXCEPT !.pc = "skipped"]
           ELSE webhook' = [webhook EXCEPT !.appended = appended,
                                           !.padded = padded,
                                           !.decoded = urlsafe_b64decode(padded),
                                           !.pc = "done"]
    /\ UNCHANGED <<store_vars, integration_tokens, verification_token,
                   verify_call, token_vars, endpoint_calls>>

\* ------------------------------------------------------ Gmail push webhook
\* Lines 765-791: the tenant whose Gmail row carries email_address as its
\* webhook_primary_id, None when there is none; the except clause turns every
\* exception of the query (the unmapped attribute, two rows found) into None.
_find_user_by_gmail_email(email_address) ==
    LET found == {k \in integration_tokens :
                     /\ k.integration_type = "gmail"
                     /\ k.webhook_primary_id = email_address}
    IN  IF "webhook_primary_id" \notin IntegrationTokenColumns THEN None
        ELSE IF Cardinality(found) # 1 THEN None
        ELSE (CHOOSE k \in found : TRUE).user_id

\* What a push notification's data decodes to: a JSON object with or without
\* its two fields (an empty address and a historyId of 0 are falsy), or
\* nothing (not base64url, not UTF-8, not JSON, not an object).
EmailAddresses == {"e1", "e2", "e3"}

\* gmail_data.get("historyId") of an object without the field.
NoHistoryId == -1

Notifications ==
    [kind : {"push"}, emailAddress : EmailAddresses \cup {None, ""},
     historyId : {NoHistoryId, 0, 7}]
    \cup [kind : {"undecodable"}, emailAddress : {None}, historyId : {NoHistoryId}]

\* The WebhookResponse, the user the lookup found and the imports the
\* handler has started.
GmailResponse(status, message, user_id, dispatched) ==
    [status_code |-> 200, status |-> status, message |-> message,
     user_id |-> user_id, dispatched |-> dispatched]

NoNotification ==
    [handled |-> FALSE,
     notification |-> [kind |-> "none", emailAddress |-> None,
                       historyId |-> NoHistoryId],
     response |-> [status_code |-> 0, status |-> "none", message |-> "none",
                   user_id |-> None, dispatched |-> {}]]

\* Lines 1101-1168: the response of handle_gmail_webhook.  After the lookup
\* the handler prints what it found and returns.
gmail_webhook_response(notification) ==
    IF notification.kind = "undecodable"
    THEN GmailResponse("error", "Failed to decode message data", None, {})
    ELSE IF notification.emailAddress \in {None, ""}
            \/ notification.historyId \in {NoHistoryId, 0}
    THEN GmailResponse("error",
             "Missing emailAddress or historyId in decoded data", None, {})
    ELSE GmailResponse("success", "Gmail webhook processed successfully",
             _find_user_by_gmail_email(notification.emailAddress), {})

\* POST /integrations/webhook/gmail: one notification, handled to its
\* response.
handle_gmail_webhook(notification) ==
    /\ ~webhook.handled
    /\ webhook' = [handled |-> TRUE, notification |-> notification,
                   response |-> gmail_webhook_response(notification)]
    /\ UNCHANGED <<store_vars, integration_tokens, verification_token,
                   verify_call, token_vars, endpoint_calls>>


\* ----------------------------------------------------------- specification
StoredTokens ==
    {IntegrationToken("u1", "notion", "tok1", None, NoExpiry, None)}

Init ==
    /\ raw_entries = {}
    /\ next_id = 1
    /\ integration_tokens = StoredTokens
    /\ tasks = [t \in Tasks |-> IdleTask]
    /\ notified = {}
    /\ queue_configured \in {"configured", "no_url"}
    /\ verification_token = None
    /\ webhook = NoDelivery
    /\ verify_call = NoCall
    /\ now = 0
    /\ token_calls = [t \in Tasks |-> NoTokenCall]
    /\ issued = 0
    /\ endpoint_calls = [t \in Tasks |-> NoEndpointCall]

Next ==
    \/ \E t \in Tasks, u \in Users, p \in PageIds, k \in {None, "tok"} :
           create_or_update_notion_page_select(t, u, p, k)
    \/ \E t \in Tasks : create_or_update_notion_page_retrieve(t)
    \/ \E t \in Tasks : create_or_update_notion_page_store(t)

Spec == Init /\ [][Next]_vars

\* The importers and the single-page upsert share rows only within one
\* tenant, so their interleavings are explored for one tenant.  They are
\* called as the endpoints call them, with the token of the connection
\* (integration_endpoints.py lines 316-321, 854, 886).
ImportUsers == {"u1"}

NextImport ==
    \/ \E t \in Tasks, u \in ImportUsers, p \in PageIds, k \in {"tok"} :
           create_or_update_notion_page_select(t, u, p, k)
    \/ \E t \in Tasks : create_or_update_notion_page_retrieve(t)
    \/ \E t \in Tasks : create_or_update_notion_page_store(t)
    \/ \E t \in Tasks, u \in ImportUsers, k \in {"tok"} :
           populate_raw_entries_from_notion_start(t, u, k)
    \/ \E t \in Tasks : populate_raw_entries_from_notion_discover(t)
    \/ \E t \in Tasks : populate_raw_entries_from_notion_retrieve(t)
    \/ \E t \in Tasks : populate_raw_entries_from_notion_store(t)
    \/ \E t \in Tasks, u \in ImportUsers :
           import_latest_gmail_emails_start(t, u, "tok")
    \/ \E t \in Tasks : import_latest_gmail_emails_list(t)
    \/ \E t \in Tasks : import_latest_gmail_emails_details(t)
    \/ \E t \in Tasks : import_latest_gmail_emails_sleep(t)

SpecImport == Init /\ [][NextImport]_vars

\* Calls of the signature verifier on every combination of body, secret and
\* header.
InitVerify ==
    /\ raw_entries = {}
    /\ next_id = 1
    /\ integration_tokens = {}
    /\ tasks = [t \in Tasks |-> IdleTask]
    /\ notified = {}
    /\ queue_configured = "configured"
    /\ verification_token = None
    /\ webhook = NoDelivery
    /\ verify_call \in
          [body : RawBodies,
           verification_token : Secrets \cup {None, MalformedSecret},
           signature_header : Headers(RawBodies, Secrets)
                              \cup {NoHeader, EmptyHeader},
           applied : {FALSE}, result : {FALSE}, raised : {FALSE}]
    /\ now = 0
    /\ token_calls = [t \in Tasks |-> NoTokenCall]
    /\ issued = 0
    /\ endpoint_calls = [t \in Tasks |-> NoEndpointCall]

NextVerify == verify_apply

SpecVerify == InitVerify /\ [][NextVerify]_vars

\* Deliveries to the Notion webhook over every store of connections and
\* either configuration of the verification secret.
InitWebhook ==
    /\ raw_entries = {}
    /\ next_id = 1
    /\ integration_tokens \in
          {c \in SUBSET NotionConnections : uq_user_integration_type(c)}
    /\ tasks = [t \in Tasks |-> IdleTask]
    /\ notified = {}
    /\ queue_configured = "configured"
    /\ verification_token \in {None, "", "s1"}
    /\ webhook = NoDelivery
    /\ verify_call = NoCall
    /\ now = 0
    /\ token_calls = [t \in Tasks |-> NoTokenCall]
    /\ issued = 0
    /\ endpoint_calls = [t \in Tasks |-> NoEndpointCall]

NextWebhook == \E request \in Requests : handle_notion_webhook(request)

SpecWebhook == InitWebhook /\ [][NextWebhook]_vars

\* Calls for a valid Gmail token over a stored connection with or without a
\* refresh token, and with an expiry on either side of the refresh margin.
GmailConnections ==
    {IntegrationToken("u1", "gmail", "t0", r, e, None) :
        r \in {None, "", "r1"}, e \in {NoExpiry, 4, 5, 6, 10}}

InitToken ==
    /\ raw_entries = {}
    /\ next_id = 1
    /\ integration_tokens \in {{k} : k \in GmailConnections}
    /\ tasks = [t \in Tasks |-> IdleTask]
    /\ notified = {}
    /\ queue_configured = "configured"
    /\ verification_token = None
    /\ webhook = NoDelivery
    /\ verify_call = NoCall
    /\ now = 0
    /\ token_calls = [t \in Tasks |-> NoTokenCall]
    /\ issued = 0
    /\ endpoint_calls = [t \in Tasks |-> NoEndpointCall]

NextToken ==
    \/ \E t \in Tasks : refresh_token_if_needed_call(t, "u1")
    \/ \E t \in Tasks : \E response \in Answers(t) :
           refresh_token_if_needed_response(t, response)
    \/ \E t \in Tasks : get_stored_gmail_token_call(t, "u1")
    \/ \E t \in Tasks : \E response \in Answers(t) :
           get_stored_gmail_token_response(t, response)
    \/ Tick

SpecToken == InitToken /\ [][NextToken]_vars

\* Connect, disconnect and status requests, with the token refreshes of the
\* importer, over every store of connections that respects the unique
\* constraint of the table.
StoredConnections ==
    {IntegrationToken("u1", "notion", "tokA", None, NoExpiry, "A"),
     IntegrationToken("u2", "notion", "tokB", None, NoExpiry, "B"),
     IntegrationToken("u1", "gmail", "t0", "r1", 4, "e1"),
     IntegrationToken("u1", "gmail", "t0", None, 4, "e1"),
     IntegrationToken("u1", "gmail", "t0", "r1", 10, "e1")}

InitConnection ==
    /\ raw_entries = {}
    /\ next_id = 1
    /\ integration_tokens \in
          {c \in SUBSET StoredConnections : uq_user_integration_type(c)}
    /\ tasks = [t \in Tasks |-> IdleTask]
    /\ notified = {}
    /\ queue_configured = "configured"
    /\ verification_token = None
    /\ webhook = NoDelivery
    /\ verify_call = NoCall
    /\ now = 0
    /\ token_calls = [t \in Tasks |-> NoTokenCall]
    /\ issued = 0
    /\ endpoint_calls = [t \in Tasks |-> NoEndpointCall]

NextConnection ==
    \/ \E t \in Tasks, u \in Users, kind \in {"connect_notion", "connect_gmail"} :
           connect_request(t, kind, u)
    \/ \E t \in Tasks, oauth_data \in Answered(NotionExchanges) :
           connect_notion_exchange(t, oauth_data)
    \/ \E t \in Tasks, token_data \in Answered(GmailExchanges) :
           connect_gmail_exchange(t, token_data)
    \/ \E t \in Tasks : connect_gmail_watch(t)
    \/ \E t \in Tasks, u \in Users : disconnect_notion(t, u)
    \/ \E t \in Tasks, u \in Users : get_notion_status(t, u)
    \/ \E t \in Tasks, u \in Users, revoke_token \in BOOLEAN :
           disconnect_gmail_select(t, u, revoke_token)
    \/ \E t \in Tasks : \E response \in Answers(t) :
           refresh_token_if_needed_response(t, response)
    \/ \E t \in Tasks, response \in {200, 500} :
           disconnect_gmail_stop_watch(t, response)
    \/ \E t \in Tasks, response \in {200, 400} :
           disconnect_gmail_revoke(t, response)
    \/ \E t \in Tasks :
           IsNextCall(t) /\ get_stored_gmail_token_call(t, "u1")
    \/ \E t \in Tasks : \E response \in Answers(t) :
           get_stored_gmail_token_response(t, response)

SpecConnection == InitConnection /\ [][NextConnection]_vars

\* Gmail disconnects with every answer of the provider to the stop and the
\* revoke request, next to the token refreshes of the importer.
GmailStores ==
    {{}, {IntegrationToken("u1", "gmail", "", "r1", 10, "e1")}}
    \cup {{k} : k \in {c \in StoredConnections :
                          c.integration_type = "gmail"}}

InitDisconnect ==
    /\ raw_entries = {}
    /\ next_id = 1
    /\ integration_tokens \in GmailStores
    /\ tasks = [t \in Tasks |-> IdleTask]
    /\ notified = {}
    /\ queue_configured = "configured"
    /\ verification_token = None
    /\ webhook = NoDelivery
    /\ verify_call = NoCall
    /\ now = 0
    /\ token_calls = [t \in Tasks |-> NoTokenCall]
    /\ issued = 0
    /\ endpoint_calls = [t \in Tasks |-> NoEndpointCall]

NextDisconnect ==
    \/ \E t \in Tasks, revoke_token \in BOOLEAN :
           disconnect_gmail_select(t, "u1", revoke_token)
    \/ \E t \in Tasks : \E response \in Answers(t) :
           refresh_token_if_needed_response(t, response)
    \/ \E t \in Tasks, response \in StopResponses :
           disconnect_gmail_stop_watch(t, response)
    \/ \E t \in Tasks, response \in RevokeResponses :
           disconnect_gmail_revoke(t, response)
    \/ \E t \in Tasks :
           IsNextCall(t) /\ get_stored_gmail_token_call(t, "u1")
    \/ \E t \in Tasks : \E response \in Answers(t) :
           get_stored_gmail_token_response(t, response)

SpecDisconnect == InitDisconnect /\ [][NextDisconnect]_vars


\* The OAuth connect endpoints of both providers with the background import
\* they schedule, for a tenant with and without a stored Gmail connection.
\* No Notion connect reaches add_task, so the steps of the Notion backfill
\* do not occur here.
OAuthStores ==
    {{}, {IntegrationToken("u1", "gmail", "t0", "r1", 4, "e1")}}

InitOAuth ==
    /\ raw_entries = {}
    /\ next_id = 1
    /\ integration_tokens \in OAuthStores
    /\ tasks = [t \in Tasks |-> IdleTask]
    /\ notified = {}
    /\ queue_configured = "configured"
    /\ verification_token = None
    /\ webhook = NoDelivery
    /\ verify_call = NoCall
    /\ now = 0
    /\ token_calls = [t \in Tasks |-> NoTokenCall]
    /\ issued = 0
    /\ endpoint_calls = [t \in Tasks |-> NoEndpointCall]

NextOAuth ==
    \/ \E t \in Tasks, kind \in {"connect_notion", "connect_gmail"} :
           connect_request(t, kind, "u1")
    \/ \E t \in Tasks, oauth_data \in NotionExchanges :
           connect_notion_exchange(t, oauth_data)
    \/ \E t \in Tasks, token_data \in GmailExchanges :
           connect_gmail_exchange(t, token_data)
    \/ \E t \in Tasks : connect_gmail_watch(t)
    \/ \E t, s \in Tasks : run_background_task(t, s)
    \/ \E t \in Tasks : import_latest_gmail_emails_list(t)
    \/ \E t \in Tasks : import_latest_gmail_emails_details(t)
    \/ \E t \in Tasks : import_latest_gmail_emails_sleep(t)

SpecOAuth == InitOAuth /\ [][NextOAuth]_vars


\* The single-page upsert under every state of the notifier's environment.
InitNotify ==
    /\ raw_entries = {}
    /\ next_id = 1
    /\ integration_tokens = StoredTokens
    /\ tasks = [t \in Tasks |-> IdleTask]
    /\ notified = {}
    /\ queue_configured \in QueueStates
    /\ verification_token = None
    /\ webhook = NoDelivery
    /\ verify_call = NoCall
    /\ now = 0
    /\ token_calls = [t \in Tasks |-> NoTokenCall]
    /\ issued = 0
    /\ endpoint_calls = [t \in Tasks |-> NoEndpointCall]

NextNotify ==
    \/ \E t \in Tasks, p \in PageIds :
           create_or_update_notion_page_select(t, "u1", p, "tok")
    \/ \E t \in Tasks : create_or_update_notion_page_retrieve(t)
    \/ \E t \in Tasks : create_or_update_notion_page_store(t)

SpecNotify == InitNotify /\ [][NextNotify]_vars


\* Every store of Notion connections the table admits for two tenants.
InitNotionStores ==
    /\ raw_entries = {}
    /\ next_id = 1
    /\ integration_tokens \in
          {c \in SUBSET NotionConnections : uq_user_integration_type(c)}
    /\ tasks = [t \in Tasks |-> IdleTask]
    /\ notified = {}
    /\ queue_configured = "configured"
    /\ verification_token = None
    /\ webhook = NoDelivery
    /\ verify_call = NoCall
    /\ now = 0
    /\ token_calls = [t \in Tasks |-> NoTokenCall]
    /\ issued = 0
    /\ endpoint_calls = [t \in Tasks |-> NoEndpointCall]

\* Readers of the stored Notion token, with disconnects removing
\* connections in between.
NextStoredToken ==
    \/ \E t \in Tasks, u \in Users : get_stored_notion_token_call(t, u)
    \/ \E t \in Tasks, u \in Users : disconnect_notion(t, u)
    \/ \E t \in Tasks, u \in Users : get_notion_status(t, u)

SpecStoredToken == InitNotionStores /\ [][NextStoredToken]_vars

\* The Notion backfill for a tenant with and without a stored connection,
\* called with and without a token.
InitBackfill ==
    /\ raw_entries = {}
    /\ next_id = 1
    /\ integration_tokens \in {{}, StoredTokens}
    /\ tasks = [t \in Tasks |-> IdleTask]
    /\ notified = {}
    /\ queue_configured = "configured"
    /\ verification_token = None
    /\ webhook = NoDelivery
    /\ verify_call = NoCall
    /\ now = 0
    /\ token_calls = [t \in Tasks |-> NoTokenCall]
    /\ issued = 0
    /\ endpoint_calls = [t \in Tasks |-> NoEndpointCall]

NextBackfill ==
    \/ \E t \in Tasks, u \in ImportUsers, k \in {None, "", "tok"} :
           populate_raw_entries_from_notion_start(t, u, k)
    \/ \E t \in Tasks : populate_raw_entries_from_notion_discover(t)
    \/ \E t \in Tasks : populate_raw_entries_from_notion_retrieve(t)
    \/ \E t \in Tasks : populate_raw_entries_from_notion_store(t)

SpecBackfill == InitBackfill /\ [][NextBackfill]_vars

\* The decode sites on every byte string of up to MaxBytes bytes, sent with
\* the padding kept or stripped.
InitDecode ==
    /\ raw_entries = {}
    /\ next_id = 1
    /\ integration_tokens = {}
    /\ tasks = [t \in Tasks |-> IdleTask]
    /\ notified = {}
    /\ queue_configured = "configured"
    /\ verification_token = None
    /\ \E site \in {"_extract_body_text", "handle_gmail_webhook"}, original \in SeqsUpTo(ByteValues, MaxBytes), kept \in BOOLEAN :
           webhook = DecodeCall(site, original,
                                IF kept THEN urlsafe_b64encode(original)
                                ELSE rstrip_pad(urlsafe_b64encode(original)))
    /\ verify_call = NoCall
    /\ now = 0
    /\ token_calls = [t \in Tasks |-> NoTokenCall]
    /\ issued = 0
    /\ endpoint_calls = [t \in Tasks |-> NoEndpointCall]

NextDecode == decode_apply

SpecDecode == InitDecode /\ [][NextDecode]_vars

\* Push notifications over stores holding a Gmail connection of either
\* tenant, with or without a routing key.
PushConnections ==
    {IntegrationToken("u1", "gmail", "t0", "r1", 10, w) : w \in {None, "e1"}}
    \cup {IntegrationToken("u2", "gmail", "t0", "r1", 10, w) :
             w \in {None, "e1", "e2"}}

InitPush ==
    /\ raw_entries = {}
    /\ next_id = 1
    /\ integration_tokens \in
           {s \in SUBSET PushConnections : uq_user_integration_type(s)}
    /\ tasks = [t \in Tasks |-> IdleTask]
    /\ notified = {}
    /\ queue_configured = "configured"
    /\ verification_token = None
    /\ webhook = NoNotification
    /\ verify_call = NoCall
    /\ now = 0
    /\ token_calls = [t \in Tasks |-> NoTokenCall]
    /\ issued = 0
    /\ endpoint_calls = [t \in Tasks |-> NoEndpointCall]

NextPush ==
    \E notification \in Notifications : handle_gmail_webhook(notification)

SpecPush == InitPush /\ [][NextPush]_vars

\* Upserts over a store that already holds, since minute 0, the page p1 of
\* either tenant and an email of u1 with the same external id.
ExistingEntries ==
    {[RawEntry(i, IF i = 2 THEN "u2" ELSE "u1",
               IF i = 3 THEN "gmail" ELSE "notion", "p1", "v1")
         EXCEPT !.created_at = 0] : i \in 1 .. 3}

InitUpdate ==
    /\ now = 1
    /\ raw_entries = ExistingEntries
    /\ next_id = 4
    /\ integration_tokens = StoredTokens
    /\ tasks = [t \in Tasks |-> IdleTask]
    /\ notified = {}
    /\ queue_configured \in {"configured", "no_url"}
    /\ verification_token = None
    /\ webhook = NoDelivery
    /\ verify_call = NoCall
    /\ token_calls = [t \in Tasks |-> NoTokenCall]
    /\ issued = 0
    /\ endpoint_calls = [t \in Tasks |-> NoEndpointCall]

NextUpdate ==
    \/ \E t \in Tasks, u \in Users, p \in PageIds :
           create_or_update_notion_page_select(t, u, p, "tok")
    \/ \E t \in Tasks : create_or_update_notion_page_retrieve(t)
    \/ \E t \in Tasks : create_or_update_notion_page_store(t)

SpecUpdate == InitUpdate /\ [][NextUpdate]_vars

\* Upserts of either tenant over a store that holds the page p1 of both,
\* beside unsigned deliveries of events to the webhook, with a connection
\* of each tenant stored.
InitTenant ==
    /\ now = 1
    /\ raw_entries = ExistingEntries
    /\ next_id = 4
    /\ integration_tokens =
          {k \in NotionConnections : k.access_token \in {"tokA", "tokB"}}
    /\ tasks = [t \in Tasks |-> IdleTask]
    /\ notified = {}
    /\ queue_configured = "configured"
    /\ verification_token = None
    /\ webhook = NoDelivery
    /\ verify_call = NoCall
    /\ token_calls = [t \in Tasks |-> NoTokenCall]
    /\ issued = 0
    /\ endpoint_calls = [t \in Tasks |-> NoEndpointCall]

NextTenant ==
    \/ \E t \in Tasks, u \in Users, p \in PageIds :
           create_or_update_notion_page_select(t, u, p, "tok")
    \/ \E t \in Tasks : create_or_update_notion_page_retrieve(t)
    \/ \E t \in Tasks : create_or_update_notion_page_store(t)
    \/ \E request \in Requests :
           /\ request.kind = "event" /\ request.signature = NoHeader
           /\ request.type \in {"page.content_updated", "page.deleted"}
           /\ ~webhook.handled
           /\ handle_notion_webhook(request)

SpecTenant == InitTenant /\ [][NextTenant]_vars

\* Upserts for tenant u1, dispatched with the connection's token or left to
\* look it up, beside requests of u1 to disconnect Notion.
InitRace ==
    /\ raw_entries = {}
    /\ next_id = 1
    /\ integration_tokens = StoredTokens
    /\ tasks = [t \in Tasks |-> IdleTask]
    /\ notified = {}
    /\ queue_configured = "configured"
    /\ verification_token = None
    /\ webhook = NoDelivery
    /\ verify_call = NoCall
    /\ now = 0
    /\ token_calls = [t \in Tasks |-> NoTokenCall]
    /\ issued = 0
    /\ endpoint_calls = [t \in Tasks |-> NoEndpointCall]

NextRace ==
    \/ \E t \in Tasks, p \in PageIds, k \in {None, "", "tok1"} :
           create_or_update_notion_page_select(t, "u1", p, k)
    \/ \E t \in Tasks : create_or_update_notion_page_retrieve(t)
    \/ \E t \in Tasks : create_or_update_notion_page_store(t)
    \/ \E t \in Tasks : disconnect_notion(t, "u1")

SpecRace == InitRace /\ [][NextRace]_vars

\* Tenant u1 connects Gmail and Notion again over its stored connections,
\* with the account's address in the profile or without it, and the
\* background imports start.
InitReconnect ==
    /\ raw_entries = {}
    /\ next_id = 1
    /\ integration_tokens \in
          {{k, IntegrationToken("u1", "notion", "tokA", None, NoExpiry, "A")} :
              k \in {c \in StoredConnections :
                        /\ c.integration_type = "gmail"
                        /\ c.refresh_token # None}}
    /\ tasks = [t \in Tasks |-> IdleTask]
    /\ notified = {}
    /\ queue_configured = "configured"
    /\ verification_token = None
    /\ webhook = NoDelivery
    /\ verify_call = NoCall
    /\ now = 0
    /\ token_calls = [t \in Tasks |-> NoTokenCall]
    /\ issued = 0
    /\ endpoint_calls = [t \in Tasks |-> NoEndpointCall]

NextReconnect ==
    \/ \E t \in Tasks, kind \in {"connect_notion", "connect_gmail"} :
           connect_request(t, kind, "u1")
    \/ \E t \in Tasks, oauth_data \in NotionReconnects :
           connect_notion_exchange(t, oauth_data)
    \/ \E t \in Tasks, token_data \in GmailReconnects :
           connect_gmail_exchange(t, token_data)
    \/ \E t \in Tasks : connect_gmail_watch(t)
    \/ \E t, s \in Tasks : run_background_task(t, s)

SpecReconnect == InitReconnect /\ [][NextReconnect]_vars

\* The Gmail import called with and without a token, for a tenant with and
\* without a stored Gmail connection, up to its listing.
InitGmailStart ==
    /\ raw_entries = {}
    /\ next_id = 1
    /\ integration_tokens \in GmailStores
    /\ tasks = [t \in Tasks |-> IdleTask]
    /\ notified = {}
    /\ queue_configured = "configured"
    /\ verification_token = None
    /\ webhook = NoDelivery
    /\ verify_call = NoCall
    /\ now = 0
    /\ token_calls = [t \in Tasks |-> NoTokenCall]
    /\ issued = 0
    /\ endpoint_calls = [t \in Tasks |-> NoEndpointCall]

NextGmailStart ==
    \/ \E t \in Tasks, k \in {None, "", "tok"} :
           import_latest_gmail_emails_start(t, "u1", k)
    \/ \E t \in Tasks : \E response \in Answers(t) :
           get_stored_gmail_token_response(t, response)
    \/ \E t \in Tasks : import_latest_gmail_emails_list(t)
    \/ \E t \in Tasks : import_latest_gmail_emails_details(t)
    \/ \E t \in Tasks : import_latest_gmail_emails_sleep(t)

SpecGmailStart == InitGmailStart /\ [][NextGmailStart]_vars

\* ------------------------------------------------------ checked properties
UpsertDone(t) == tasks[t].kind = "upsert" /\ tasks[t].pc = "done"

SameKey(a, b) ==
    tasks[a].user_id = tasks[b].user_id /\ tasks[a].page_id = tasks[b].page_id

NotionRows(t) ==
    RowsFor(raw_entries, tasks[t].user_id, "notion", tasks[t].page_id)

Fetched(r) == r.message \notin {"no token", "retrieve", "embedding"}

\* C1: two calls of create_or_update_notion_page in sequence for the same
\* (tenant, provider, external id) leave exactly one row: a call that starts
\* after a successful call for the key has returned finds the row, and once
\* its fetch and embedding succeed it reports 'updated' and adds no row; a
\* successful call that found no row reports 'created'.
C1_SequentialUpsertIdempotent ==
    [][\A t \in Tasks :
        /\ (/\ tasks[t].pc = "idle"
            /\ tasks'[t].kind = "upsert" /\ tasks'[t].pc = "retrieve"
            /\ \E s \in Tasks :
                  /\ UpsertDone(s) /\ tasks[s].result.status = "success"
                  /\ tasks[s].user_id = tasks'[t].user_id
                  /\ tasks[s].page_id = tasks'[t].page_id)
           => tasks'[t].existing # 0
        /\ (/\ tasks[t].kind = "upsert" /\ tasks[t].pc = "blocks"
            /\ tasks'[t].pc = "done" /\ tasks[t].existing # 0
            /\ Fetched(tasks'[t].result))
           => /\ tasks'[t].result.status = "success"
              /\ tasks'[t].result.operation = "updated"
              /\ Cardinality(raw_entries') = Cardinality(raw_entries)
              /\ Cardinality(RowsFor(raw_entries', tasks[t].user_id,
                                     "notion", tasks[t].page_id)) = 1
        /\ (/\ tasks[t].kind = "upsert" /\ tasks[t].pc = "blocks"
            /\ tasks'[t].pc = "done" /\ tasks[t].existing = 0
            /\ tasks'[t].result.status = "success")
           => /\ tasks'[t].result.operation = "created"
              /\ Cardinality(RowsFor(raw_entries', tasks[t].user_id,
                                     "notion", tasks[t].page_id)) = 1
    ]_vars

\* The second of two sequential calls has updated the row the first created.
C1_Witness ==
    \E a, b \in Tasks :
        /\ a # b /\ UpsertDone(a) /\ UpsertDone(b) /\ SameKey(a, b)
        /\ tasks[a].existing = 0 /\ tasks[a].result.operation = "created"
        /\ tasks[b].existing # 0 /\ tasks[b].result.operation = "updated"
        /\ Cardinality(NotionRows(a)) = 1

\* C2: when two upserts for one key have both read 'no existing row' and
\* both reach the store step, the store ends with exactly one row for the
\* key, and no call lets an exception escape to its caller.
C2_ConcurrentUpsertOneRow ==
    /\ \A t \in Tasks : UpsertDone(t) => ~tasks[t].result.raised
    /\ \A a, b \in Tasks :
          (/\ a # b /\ UpsertDone(a) /\ UpsertDone(b) /\ SameKey(a, b)
           /\ tasks[a].existing = 0 /\ tasks[b].existing = 0
           /\ tasks[a].result.message \in {"ok", "IntegrityError"}
           /\ tasks[b].result.message \in {"ok", "IntegrityError"})
          => Cardinality(NotionRows(a)) = 1

\* Both calls read None; one inserted, the other lost on the constraint.
C2_Witness ==
    \E a, b \in Tasks :
        /\ a # b /\ UpsertDone(a) /\ UpsertDone(b) /\ SameKey(a, b)
        /\ tasks[a].existing = 0 /\ tasks[b].existing = 0
        /\ tasks[a].result.operation = "created"
        /\ tasks[b].result.message = "IntegrityError"
        /\ ~tasks[b].result.raised

\* C3: in every reachable state, whatever the interleaving of single-page
\* upserts, Notion backfills and Gmail imports, the store holds at most one
\* RawEntry per (tenant, provider, external id) with a non-null external id.
C3_UniqueIdentityTriple ==
    \A r1, r2 \in raw_entries :
        (r1.source_id # None /\ Key(r1) = Key(r2)) => r1 = r2

\* A backfill's INSERT was rejected by the constraint, for a page whose row
\* a single-page upsert had committed.
C3_Witness ==
    \E t, u \in Tasks :
        /\ tasks[t].kind = "notion_bulk" /\ tasks[t].pc = "done"
        /\ tasks[t].result.message = "PendingRollback"
        /\ UpsertDone(u) /\ tasks[u].result.operation = "created"
        /\ Cardinality(NotionRows(u)) = 1

ContentEvent ==
    /\ webhook.handled
    /\ webhook.request.kind = "event"
    /\ webhook.request.type \in {"page.created", "page.content_updated"}

Stored(user_id, bot_id) ==
    \E k \in integration_tokens :
        /\ k.integration_type = "notion"
        /\ k.user_id = user_id
        /\ k.webhook_primary_id = bot_id

DispatchedTo(user_id) ==
    \E d \in webhook.response.dispatched :
        d.user_id = user_id /\ d.page_id = webhook.request.entity_id

\* C4: a content event whose accessible_by lists bots A and B, with the
\* connection keyed A stored for tenant u1 and the one keyed B for tenant u2,
\* makes the handler dispatch an upsert of the event's page to u1 and another
\* to u2.
C4_FanOutToBothTenants ==
    (/\ ContentEvent
     /\ webhook.response.verified # "failed"
     /\ {"A", "B"} \subseteq Elems(bot_ids_of(webhook.request.accessible_by))
     /\ Stored("u1", "A")
     /\ Stored("u2", "B"))
    => /\ webhook.response.status_code = 200
       /\ DispatchedTo("u1")
       /\ DispatchedTo("u2")

\* C5: with a verification secret configured, a content event reaches the
\* connection lookup and the dispatch only if its signature header verifies
\* against the secret; any other delivery, the one with no signature header
\* included, is answered 401 and dispatches nothing.
C5_SignatureRequiredWhenSecretConfigured ==
    (ContentEvent /\ verification_token \notin {None, ""})
    => \/ webhook.request.signature =
              SignatureHeader(BodyOf(webhook.request), verification_token)
       \/ /\ webhook.response.status_code = 401
          /\ ~webhook.response.looked_up
          /\ webhook.response.dispatched = {}

\* C6: the verifier answers true exactly when the header is "sha256="
\* followed by the hex HMAC-SHA256 of the body under the secret; the header
\* computed for another body or another secret is answered false, and so is
\* any header that does not start with "sha256=".
C6_VerifyExactlyTheSignature ==
    verify_call.applied =>
        LET body == verify_call.body
            secret == verify_call.verification_token
            header == verify_call.signature_header
        IN  /\ secret # None =>
                (verify_call.result <=> header = SignatureHeader(body, secret))
            /\ \A b \in RawBodies, k \in Secrets :
                   (<<b, k>> # <<body, secret>>
                    /\ header = SignatureHeader(b, k)) => ~verify_call.result
            /\ ~startswith(header, Prefix) => ~verify_call.result

C6_Witness ==
    /\ verify_call.applied
    /\ verify_call.result
    /\ verify_call.signature_header =
           SignatureHeader(verify_call.body, verify_call.verification_token)

\* C7: a content event that carries no bot ids, or whose bot ids match no
\* stored connection, is answered with a success acknowledgment and
\* dispatches no upsert.
C7_NoMatchAcknowledged ==
    (/\ ContentEvent
     /\ webhook.response.verified # "failed"
     /\ \A k \in integration_tokens :
            k.webhook_primary_id \notin
                Elems(bot_ids_of(webhook.request.accessible_by)))
    => /\ webhook.response.status_code = 200
       /\ webhook.response.status = "success"
       /\ webhook.response.dispatched = {}

WithinMargin(call) ==
    /\ call.token_record.expires_at # NoExpiry
    /\ call.token_record.expires_at <= call.utcnow + RefreshMargin

\* The call has sent a refresh request to the provider: it awaits the
\* answer or has received it.
Requested(call) == call.pc = "refreshing" \/ call.contacted

OnRefreshPath(call) ==
    /\ call.pc # "idle"
    /\ call.path \in {"endpoint", "importer"}
    /\ call.token_record # NoRecord

\* C8: a call for a valid token, on either path, sends a refresh request to
\* the provider exactly when the recorded expiry is at most 5 minutes after
\* the time of the call: with expiry = now + 4 it refreshes, with expiry =
\* now + 10 it answers the stored token without contacting the provider.
C8_RefreshExactlyWithinMargin ==
    \A t \in Tasks :
        LET call == token_calls[t]
        IN  OnRefreshPath(call) =>
              /\ Requested(call) <=> WithinMargin(call)
              /\ ~WithinMargin(call) =>
                     /\ call.pc = "done"
                     /\ call.outcome = "token"
                     /\ call.access_token = call.token_record.access_token

\* What a refresh request needs besides the margin: the OAuth client
\* credentials in the environment and, on the path of
\* _refresh_token_if_needed, a stored refresh token that is not empty.
CanRequest(call) ==
    /\ call.credentials = "configured"
    /\ call.path = "endpoint" =>
           call.token_record.refresh_token \notin {None, ""}

\* C8, as it holds: a call for a valid token, on either path, sends a
\* refresh request to the provider exactly when the recorded expiry is at
\* most 5 minutes after the time of the call, the OAuth client credentials
\* are configured and, on the path of _refresh_token_if_needed, a refresh
\* token is stored; a token is refreshed only by such a request; and with an
\* expiry further ahead (or none recorded) the call answers the stored
\* token without contacting the provider.
C8_RefreshWithinMarginWhenAble ==
    \A t \in Tasks :
        LET call == token_calls[t]
        IN  OnRefreshPath(call) =>
              /\ Requested(call) <=> (WithinMargin(call) /\ CanRequest(call))
              /\ call.attempted <=> WithinMargin(call)
              /\ call.refreshed => call.contacted
              /\ ~WithinMargin(call) =>
                     /\ ~call.contacted
                     /\ call.pc = "done"
                     /\ call.outcome = "token"
                     /\ call.access_token = call.token_record.access_token

C8_Witness ==
    \E a, b \in Tasks :
        /\ token_calls[a].path = "importer"
        /\ token_calls[a].token_record.expires_at = token_calls[a].utcnow + 4
        /\ token_calls[a].refreshed
        /\ token_calls[b].path = "endpoint"
        /\ token_calls[b].pc = "done"
        /\ token_calls[b].token_record.expires_at = token_calls[b].utcnow + 10
        /\ token_calls[b].credentials = "configured"
        /\ token_calls[b].token_record.refresh_token = "r1"
        /\ ~token_calls[b].contacted
        /\ token_calls[b].access_token =
               token_calls[b].token_record.access_token

\* C9: after a successful refresh the stored connection holds the new access
\* token together with the new expiry, and a second call made at the same
\* time on a fresh read of the store answers the same token without going
\* for a refresh.
C9_RefreshPersistsTokenAndExpiry ==
    \A a \in Tasks :
        LET first == token_calls[a]
        IN  (first.pc = "done" /\ first.refreshed) =>
              /\ \A k \in integration_tokens :
                     k.access_token = first.access_token
                         => k.expires_at = first.new_expires_at
              /\ \A b \in Tasks :
                     LET second == token_calls[b]
                     IN  (/\ second.pc # "idle"
                          /\ second.utcnow = first.finished_at
                          /\ second.token_record.access_token =
                                 first.access_token)
                         => /\ ~second.attempted
                            /\ second.access_token = first.access_token

\* C10: a call made within the 5-minute margin whose refresh cannot be
\* completed (no refresh token stored, or the provider rejects the request)
\* fails with an error and does not answer the stale access token.
C10_FailedRefreshIsAnError ==
    \A t \in Tasks :
        LET call == token_calls[t]
        IN  (call.pc = "done" /\ WithinMargin(call) /\ ~call.refreshed) =>
              /\ call.outcome \notin {"none", "token"}
              /\ call.access_token = None

\* C11: when a refresh through the endpoint and a refresh through the
\* importer run concurrently on one connection (both read it before either
\* commits), the stored access token and the stored expiry are those of one
\* and the same refresh, the one whose token is stored.
C11_ConcurrentRefreshNoMerge ==
    \A a, b \in Tasks :
        LET one == token_calls[a]
            other == token_calls[b]
        IN  (/\ one.path = "endpoint" /\ other.path = "importer"
             /\ one.pc = "done" /\ other.pc = "done"
             /\ one.refreshed /\ other.refreshed
             /\ one.token_record = other.token_record)
            => \A k \in integration_tokens :
                   /\ k.access_token = one.access_token
                          => k.expires_at = one.new_expires_at
                   /\ k.access_token = other.access_token
                          => k.expires_at = other.new_expires_at


\* C12: when the revoke request of a Gmail disconnect fails (a non-200
\* answer or no answer), the stored connection is deleted all the same and
\* the disconnect answers success with token_revoked false and a
\* revocation_error that is set.
C12_RevocationFailureStillDisconnects ==
    [][\A t \in Tasks :
          (/\ endpoint_calls[t].kind = "disconnect_gmail"
           /\ endpoint_calls[t].pc = "revoke"
           /\ endpoint_calls'[t].pc = "done"
           /\ endpoint_calls'[t].revoke_status # 200)
          => /\ endpoint_calls'[t].status_code = 200
             /\ endpoint_calls'[t].status = "success"
             /\ ~endpoint_calls'[t].token_revoked
             /\ endpoint_calls'[t].revocation_error # None
             /\ select_integration_token(endpoint_calls[t].user_id,
                                         "gmail")' = {}]_vars

C12_Witness ==
    \E t \in Tasks :
        /\ endpoint_calls[t].kind = "disconnect_gmail"
        /\ endpoint_calls[t].pc = "done"
        /\ endpoint_calls[t].revoke_status \in {400, NetworkError}
        /\ endpoint_calls[t].status = "success"
        /\ ~endpoint_calls[t].token_revoked
        /\ select_integration_token(endpoint_calls[t].user_id, "gmail") = {}

\* C13: when the stop request of a Gmail disconnect fails (an answer other
\* than 200, 204 and 404, or no answer), the stored connection is deleted
\* all the same and the disconnect does not fail.
C13_UnsubscribeFailureStillDisconnects ==
    \A t \in Tasks :
        (/\ endpoint_calls[t].kind = "disconnect_gmail"
         /\ endpoint_calls[t].pc = "done"
         /\ endpoint_calls[t].stop_status \notin {NotAsked, 200, 204, 404})
        => /\ endpoint_calls[t].status_code = 200
           /\ select_integration_token(endpoint_calls[t].user_id,
                                       "gmail") = {}


ConnectDone(t, kind) ==
    /\ endpoint_calls[t].kind = kind
    /\ endpoint_calls[t].pc = "done"
    /\ endpoint_calls[t].exchanged

HasConnection(user_id, integration_type, webhook_primary_id) ==
    \E k \in integration_tokens :
        /\ k.user_id = user_id
        /\ k.integration_type = integration_type
        /\ k.webhook_primary_id = webhook_primary_id

\* C14: in every reachable state, whatever the interleaving of connects,
\* refreshes and disconnects, there is at most one stored connection per
\* (tenant, provider, routing key).
C14_OneConnectionPerRoutingKey ==
    \A k1, k2 \in integration_tokens :
        (/\ k1.user_id = k2.user_id
         /\ k1.integration_type = k2.integration_type
         /\ k1.webhook_primary_id = k2.webhook_primary_id) => k1 = k2

C14_Witness ==
    \E a, b \in Tasks :
        /\ a # b
        /\ ConnectDone(a, "connect_notion")
        /\ ConnectDone(b, "connect_notion")
        /\ endpoint_calls[a].user_id = endpoint_calls[b].user_id
        /\ endpoint_calls[a].webhook_primary_id =
               endpoint_calls[b].webhook_primary_id
        /\ HasConnection(endpoint_calls[a].user_id, "notion",
                         endpoint_calls[a].webhook_primary_id)

\* C15: a tenant that has a Notion connection for workspace A and connects
\* workspace B gets a success answer and a second stored connection, keyed
\* B, next to the first.
C15_SecondWorkspaceConnects ==
    \A t \in Tasks :
        (/\ ConnectDone(t, "connect_notion")
         /\ endpoint_calls[t].webhook_primary_id = "B"
         /\ HasConnection(endpoint_calls[t].user_id, "notion", "A"))
        => /\ endpoint_calls[t].status_code = 200
           /\ HasConnection(endpoint_calls[t].user_id, "notion", "B")

\* C16: a disconnect of a tenant that has a connection for the provider,
\* Notion or Gmail, succeeds and leaves no connection of that provider for
\* the tenant, so that the status lookup that follows finds none.
C16_DisconnectRemovesConnection ==
    [][\A t \in Tasks :
          /\ (/\ endpoint_calls[t].pc = "idle"
              /\ endpoint_calls'[t].kind = "disconnect_notion"
              /\ select_integration_token(endpoint_calls'[t].user_id,
                                          "notion") # {})
             => /\ endpoint_calls'[t].status_code = 200
                /\ endpoint_calls'[t].status = "success"
                /\ \A k \in integration_tokens' :
                       ~(/\ k.user_id = endpoint_calls'[t].user_id
                         /\ k.integration_type = "notion")
          /\ (/\ endpoint_calls'[t].kind = "disconnect_gmail"
              /\ endpoint_calls[t].pc # "done"
              /\ endpoint_calls'[t].pc = "done"
              /\ select_integration_token(endpoint_calls'[t].user_id,
                                          "gmail") # {})
             => /\ endpoint_calls'[t].status_code = 200
                /\ endpoint_calls'[t].status = "success"
                /\ \A k \in integration_tokens' :
                       ~(/\ k.user_id = endpoint_calls'[t].user_id
                         /\ k.integration_type = "gmail")
          /\ (/\ endpoint_calls[t].pc = "idle"
              /\ endpoint_calls'[t].kind = "get_notion_status")
             => /\ endpoint_calls'[t].status_code = 200
                /\ endpoint_calls'[t].is_connected <=>
                       select_integration_token(endpoint_calls'[t].user_id,
                                                "notion") # {}]_vars


BulkTask(t) == tasks[t].kind \in {"notion_bulk", "gmail_bulk"}

\* C17: in a bulk import, the failure of one item never costs a sibling:
\* an item that was fetched and stored (flushed) without error stays stored
\* through every later step of the batch and is committed when it ends.
C17_BatchItemFailureIsolated ==
    [][\A t \in Tasks :
          BulkTask(t) =>
              tasks[t].pending \subseteq (tasks'[t].pending \cup raw_entries')
      ]_vars

\* C18: a Notion backfill for a tenant who already has rows for discovered
\* pages completes with status success and leaves one row per page.
C18_BackfillOverExistingRows ==
    \A t \in Tasks :
        (/\ tasks[t].kind = "notion_bulk"
         /\ tasks[t].pc = "done"
         /\ tasks[t].result.message # "no token"
         /\ \E r \in raw_entries :
                r.user_id = tasks[t].user_id /\ r.source = "notion")
        => /\ tasks[t].result.status = "success"
           /\ \A r1, r2 \in raw_entries : Key(r1) = Key(r2) => r1 = r2

\* C19: when two upserts for one key both read 'no existing row' and collide
\* on the unique constraint, the call whose INSERT fails retries as an update
\* and completes with a successful 'updated' outcome.
C19_LoserRetriesAsUpdate ==
    \A a, b \in Tasks :
        (/\ a # b /\ UpsertDone(a) /\ UpsertDone(b) /\ SameKey(a, b)
         /\ tasks[a].existing = 0 /\ tasks[b].existing = 0
         /\ tasks[a].result.operation = "created"
         /\ Fetched(tasks[b].result))
        => /\ tasks[b].result.status = "success"
           /\ tasks[b].result.operation = "updated"


\* C20: a verification challenge answered with success has stored the token
\* it carries as the webhook verification secret, the key that later
\* deliveries are verified with.
C20_ChallengeStoresSecret ==
    (/\ webhook.handled
     /\ webhook.request.kind = "verification"
     /\ webhook.response.status_code = 200)
    => verification_token = webhook.request.verification_token


\* C21: a delivery of an event whose type is neither page.created nor
\* page.content_updated (page.deleted, or a type the handler does not know),
\* not refused for its signature, is answered 200 with status success,
\* dispatches no upsert and leaves the stored raw entries as they were.
C21_OtherEventTypesAcknowledged ==
    [][(/\ webhook'.handled
        /\ webhook'.request.kind = "event"
        /\ webhook'.request.type \notin {"page.created", "page.content_updated"}
        /\ webhook'.response.verified # "failed")
       => /\ webhook'.response.status_code = 200
          /\ webhook'.response.status = "success"
          /\ webhook'.response.dispatched = {}
          /\ raw_entries' = raw_entries
      ]_vars


ConnectCall(t) ==
    endpoint_calls[t].kind \in {"connect_notion", "connect_gmail"}

ProviderOf(kind) == IF kind = "connect_notion" THEN "notion" ELSE "gmail"

C23_ConfigurationErrorDistinct ==
    \A a, b \in Tasks :
        (/\ ConnectCall(a) /\ endpoint_calls[a].pc = "done"
         /\ endpoint_calls[b].pc = "done"
         /\ endpoint_calls[a].kind = endpoint_calls[b].kind
         /\ endpoint_calls[a].failure = "not_configured"
         /\ endpoint_calls[b].failure = "rejected")
        => endpoint_calls[a].status_code \div 100
               # endpoint_calls[b].status_code \div 100


\* C24: whatever the state of the queue's configuration, its client and its
\* consumer, the notification an upsert sends returns without raising, and
\* the upsert ends with status success and its row committed.
C24_NotifyNeverRaises ==
    \A t \in Tasks :
        (UpsertDone(t) /\ tasks[t].notify # "none")
        => /\ tasks[t].notify = "returned"
           /\ tasks[t].result.status = "success"
           /\ ~tasks[t].result.raised
           /\ RowsFor(raw_entries, tasks[t].user_id, "notion",
                      tasks[t].page_id) # {}

\* An upsert stored its row while the Cloud Tasks client raises.
C24_Witness ==
    \E t \in Tasks :
        /\ queue_configured = "client_raises"
        /\ UpsertDone(t)
        /\ tasks[t].notify = "returned"
        /\ tasks[t].result.operation = "created"
        /\ notified = {}


\* C25: a delivery whose body cannot be parsed into a webhook payload
\* (bytes that are not text, text that is not JSON, JSON that is neither a
\* challenge nor a well-formed event) is answered 400.
C25_UnparseableBodyIs400 ==
    (/\ webhook.handled
     /\ webhook.request.kind \in {"undecodable", "invalid_json",
                                  "invalid_event"})
    => webhook.response.status_code = 400


\* C26: a call of get_stored_notion_token(user) returns the access token of
\* a stored Notion connection of the user when there is one, raises
\* ValueError when there is none, and ends in no other way.
C26_StoredNotionToken ==
    [][\A t \in Tasks :
          (/\ token_calls[t].pc = "idle"
           /\ token_calls'[t].pc = "done"
           /\ token_calls'[t].path = "notion")
          => LET call == token_calls'[t]
                 rows == {k \in integration_tokens :
                             /\ k.user_id = call.token_record.user_id
                             /\ k.integration_type = "notion"}
             IN  /\ call.outcome \in {"token", "ValueError"}
                 /\ rows = {} <=> call.outcome = "ValueError"
                 /\ rows # {} =>
                        \E k \in rows : call.access_token = k.access_token
      ]_vars

\* One call returned the token of a tenant with a connection, another
\* raised ValueError for a tenant without one while a connection of the
\* other tenant is stored.
C26_Witness ==
    \E a, b \in Tasks :
        /\ token_calls[a].path = "notion"
        /\ token_calls[a].outcome = "token"
        /\ token_calls[a].access_token = "tokB"
        /\ token_calls[b].path = "notion"
        /\ token_calls[b].outcome = "ValueError"
        /\ integration_tokens # {}

\* C27: a backfill called without a token (None or the empty string) for a
\* tenant with no stored Notion connection ends at once, before any request
\* to the provider, with
\* the error of the missing token and nothing processed; a backfill for
\* which the provider lists no pages ends with success and nothing
\* processed; neither writes a raw entry.
C27_BackfillWithNothingToDo ==
    [][\A t \in Tasks :
          LET before == tasks[t]
              after == tasks'[t]
              stored == \E k \in integration_tokens :
                            /\ k.user_id = after.user_id
                            /\ k.integration_type = "notion"
          IN  /\ (/\ before.pc = "idle"
                  /\ after.kind = "notion_bulk"
                  /\ after.notion_token \in {None, ""}
                  /\ ~stored)
                 => /\ after.pc = "done"
                    /\ after.result = Return("error", "none", "no token")
                    /\ after.processed = 0
                    /\ raw_entries' = raw_entries
              /\ (/\ before.kind = "notion_bulk"
                  /\ before.pc = "discover"
                  /\ after.pc = "done")
                 => /\ after.result.status = "success"
                    /\ after.processed = 0
                    /\ raw_entries' = raw_entries
      ]_vars

\* One backfill ended for want of a token, another, called with a token,
\* found no pages; nothing is stored.
C27_Witness ==
    \E a, b \in Tasks :
        /\ tasks[a].kind = "notion_bulk" /\ tasks[a].pc = "done"
        /\ tasks[a].notion_token = None
        /\ tasks[a].result.message = "no token"
        /\ tasks[b].kind = "notion_bulk" /\ tasks[b].pc = "done"
        /\ tasks[b].notion_token = "tok"
        /\ tasks[b].result.status = "success"
        /\ tasks[b].processed = 0
        /\ raw_entries = {}


\* C28: no call of the verifier lets an exception out; a call in which the
\* computation fails (no header, no secret, a secret that cannot be
\* encoded, a header that cannot be compared) answers false.
C28_VerifyNeverRaises ==
    verify_call.applied =>
        /\ ~verify_call.raised
        /\ verify_try(verify_call.body, verify_call.verification_token,
                      verify_call.signature_header) \notin {"True", "False"}
           => ~verify_call.result

\* The verifier was applied to a header with a character outside ASCII
\* under a well-formed secret, and answered false.
C28_Witness ==
    /\ verify_call.applied
    /\ verify_call.verification_token \in Secrets
    /\ verify_try(verify_call.body, verify_call.verification_token,
                  verify_call.signature_header) = "TypeError"
    /\ ~verify_call.result


\* C29 (as stated): at either decode site, for data of length n with n mod 4
\* in {0, 2, 3}, exactly (4 - n mod 4) mod 4 '=' are appended, the padded
\* length is a multiple of 4 and the data decodes to the original bytes.
C29_ExactPadding ==
    (/\ webhook.pc \in {"done", "skipped"}
     /\ Len(webhook.data) % 4 \in {0, 2, 3}) =>
        /\ webhook.appended = (4 - (Len(webhook.data) % 4)) % 4
        /\ Len(webhook.padded) % 4 = 0
        /\ webhook.decoded = webhook.original

\* C29 (amended): at either decode site, for data of length n with n mod 4 in
\* {0, 2, 3}, at least (4 - n mod 4) mod 4 '=' are appended (at body
\* extraction none to empty data, which is not decoded, and 4 - n mod 4 to
\* any other, which makes the padded length a multiple of 4; two at the push
\* notification whatever n is), and the data decodes to the original bytes.
C29_PaddingSuffices ==
    (/\ webhook.pc \in {"done", "skipped"}
     /\ Len(webhook.data) % 4 \in {0, 2, 3}) =>
        /\ webhook.appended >= (4 - (Len(webhook.data) % 4)) % 4
        /\ webhook.site = "_extract_body_text" =>
               /\ webhook.pc = "skipped" <=> webhook.data = <<>>
               /\ webhook.pc = "skipped" => webhook.appended = 0
               /\ webhook.pc = "done" =>
                      webhook.appended = 4 - (Len(webhook.data) % 4)
               /\ Len(webhook.padded) % 4 = 0
        /\ webhook.site = "handle_gmail_webhook" => webhook.appended = 2
        /\ webhook.decoded = webhook.original

\* Body data of three characters, sent without its '=', was padded by one and
\* decoded to the two bytes it stands for.
C29_Witness ==
    /\ webhook.pc = "done"
    /\ webhook.site = "_extract_body_text"
    /\ Len(webhook.data) = 3
    /\ webhook.appended = 1
    /\ webhook.decoded = webhook.original
    /\ Len(webhook.original) = 2


\* C30: a Gmail push notification whose decoded emailAddress is the routing
\* key of a stored Gmail connection has a fetch-and-upsert started for that
\* connection's tenant, with a token asked of get_valid_gmail_token.
PushRouted ==
    {k \in integration_tokens :
        /\ k.integration_type = "gmail"
        /\ k.webhook_primary_id = webhook.notification.emailAddress}

C30_PushStartsImport ==
    (/\ webhook.handled
     /\ webhook.notification.kind = "push"
     /\ webhook.notification.emailAddress \in EmailAddresses
     /\ webhook.notification.historyId = 7
     /\ PushRouted # {}) =>
        \A k \in PushRouted :
            /\ k.user_id \in webhook.response.dispatched
            /\ \/ \E t \in Tasks : /\ tasks[t].kind = "gmail_bulk"
                                   /\ tasks[t].user_id = k.user_id
               \/ \E t \in Tasks : token_calls[t].pc # "idle"


\* The stored Notion connections whose routing key is the id of an
\* accessible_by entry of type "bot" of the delivered event.
RoutedConnections ==
    {k \in integration_tokens :
        /\ k.integration_type = "notion"
        /\ \E i \in 1 .. Len(webhook.request.accessible_by) :
               /\ webhook.request.accessible_by[i].type = "bot"
               /\ webhook.request.accessible_by[i].id = k.webhook_primary_id}

\* C31: for a content event that matches a stored connection, the upserts
\* dispatched are exactly one per stored Notion connection whose routing key
\* is the id of a "bot" entry of accessible_by, each with that connection's
\* tenant and access token, however often an id is listed.
C31_OneTaskPerMatchedConnection ==
    (/\ ContentEvent
     /\ webhook.response.verified # "failed"
     /\ RoutedConnections # {})
    => /\ webhook.response.dispatched =
              {[user_id |-> k.user_id, page_id |-> webhook.request.entity_id,
                notion_token |-> k.access_token] : k \in RoutedConnections}
       /\ Cardinality(webhook.response.dispatched)
              = Cardinality(RoutedConnections)


\* C32: the step of an upsert that reports 'updated' changes, of all rows,
\* only the one it found, and of that row only content and embedding: id,
\* tenant, provider, external id and created_at stay, no row is added or
\* removed and no id is handed out.
C32_UpdateOverwritesContentOnly ==
    [][\A t \in Tasks :
        (/\ tasks[t].kind = "upsert" /\ tasks[t].pc = "blocks"
         /\ tasks'[t].result.operation = "updated")
        => \E r \in raw_entries, r2 \in raw_entries' :
              /\ r.id = tasks[t].existing
              /\ r2 = [r EXCEPT !.content = r2.content,
                                !.embedding = r2.embedding]
              /\ r2.embedding = embed_document(r2.content)
              /\ raw_entries' \ {r2} = raw_entries \ {r}
              /\ next_id' = next_id
    ]_vars

\* An upsert has updated, at minute 1, the row stored at minute 0: the row
\* holds the new content under its old id and timestamp, beside the other
\* tenant's row for the same page.
C32_Witness ==
    \E t \in Tasks, r, o \in raw_entries :
        /\ UpsertDone(t) /\ tasks[t].result.operation = "updated"
        /\ r.id = tasks[t].existing /\ r.content = "v2"
        /\ r.created_at = 0 /\ now = 1
        /\ o.user_id # r.user_id /\ o.source_id = r.source_id
        /\ o.content = "v1"


\* C33: an upsert whose page retrieval fails returns status error with
\* operation 'none' and leaves the rows as they were, and so does one whose
\* block listing fails on any of its pages: no row ever holds a block list
\* that was cut short.
C33_FetchFailureStoresNothing ==
    [][/\ \A t \in Tasks :
            (/\ tasks[t].kind = "upsert" /\ tasks[t].pc = "retrieve"
             /\ tasks'[t].pc = "done")
            => /\ tasks'[t].result.status = "error"
               /\ tasks'[t].result.operation = "none"
               /\ raw_entries' = raw_entries
       /\ \A r \in raw_entries' : r.source = "notion" => r.content # "partial"
    ]_vars


\* The positions at which a unit of work is suspended in a request to the
\* provider API.
InFlight(t) ==
    tasks[t].pc \in {"discover", "retrieve", "blocks", "list", "details"}

\* C34: no upsert and no import is suspended in a call to the provider while
\* its session holds a transaction open.
C34_NoTransactionAcrossNetworkCall ==
    \A t \in Tasks : ~(tasks[t].tx = "open" /\ InFlight(t))


\* C35: (a) the row an upsert for tenant T and page X reads is a Notion row
\* of T for X; (b) its store step changes and adds rows of T only, and every
\* row of another tenant stays as it is; (c) it fails on the unique
\* constraint only when T itself has a row for X; (d) every upsert the
\* webhook dispatches is for the tenant of a stored connection whose routing
\* key is a bot id of the event.
C35_TenantCopiesIndependent ==
    [][/\ \A t \in Tasks :
            /\ (/\ tasks[t].pc = "idle" /\ tasks'[t].kind = "upsert"
                /\ tasks'[t].existing # 0)
               => \E r \in raw_entries :
                     /\ r.id = tasks'[t].existing
                     /\ r.user_id = tasks'[t].user_id
                     /\ r.source = "notion"
                     /\ r.source_id = tasks'[t].page_id
            /\ (/\ tasks[t].kind = "upsert" /\ tasks[t].pc = "blocks"
                /\ tasks'[t].pc = "done")
               => /\ \A r \in raw_entries :
                        r.user_id # tasks[t].user_id => r \in raw_entries'
                  /\ \A r \in raw_entries' \ raw_entries :
                        r.user_id = tasks[t].user_id
                  /\ tasks'[t].result.message = "IntegrityError"
                        => \E r \in raw_entries :
                              /\ r.user_id = tasks[t].user_id
                              /\ r.source = "notion"
                              /\ r.source_id = tasks[t].page_id
       /\ \A d \in webhook'.response.dispatched :
            \E k \in integration_tokens :
                /\ k.integration_type = "notion"
                /\ k.user_id = d.user_id
                /\ k.webhook_primary_id
                       \in Elems(bot_ids_of(webhook'.request.accessible_by))
    ]_vars

\* Tenant u1 has updated its copy of page p1 while tenant u2's copy of the
\* same page is as it was, and the webhook has answered a delivery.
C35_Witness ==
    \E a \in Tasks, r1, r2 \in raw_entries :
        /\ UpsertDone(a) /\ tasks[a].user_id = "u1" /\ tasks[a].page_id = "p1"
        /\ tasks[a].result.operation = "updated" /\ tasks[a].existing = 1
        /\ r1.id = 1 /\ r1.user_id = "u1" /\ r1.content = "v2"
        /\ r2.id = 2 /\ r2.user_id = "u2" /\ r2.source_id = "p1"
        /\ r2.content = "v1"
        /\ webhook.handled


\* C36: a delivery whose payload has a verification_token field, with or
\* without the fields of an event and whatever its signature header, is
\* answered 200 "ok" with no signature check and no connection lookup,
\* dispatches nothing and leaves connections, raw entries and tasks alone.
C36_ChallengeNeverReachesRouting ==
    [][(/\ webhook'.handled
        /\ webhook'.request.kind = "verification"
        /\ webhook'.request.verification_token # None)
       => /\ webhook'.response.status_code = 200
          /\ webhook'.response.status = "ok"
          /\ webhook'.response.verified = "none"
          /\ ~webhook'.response.looked_up
          /\ webhook'.response.dispatched = {}
          /\ integration_tokens' = integration_tokens
          /\ raw_entries' = raw_entries
          /\ tasks' = tasks
      ]_vars

\* A challenge that also names a page and the bot of a stored connection,
\* sent with a header that does not verify against the configured secret,
\* was answered "ok".
C36_Witness ==
    /\ webhook.handled
    /\ webhook.request.verification_token # None
    /\ webhook.request.type = "page.content_updated"
    /\ Stored("u1", "A")
    /\ "A" \in Elems(bot_ids_of(webhook.request.accessible_by))
    /\ verification_token # None
    /\ webhook.request.signature # NoHeader
    /\ ~_verify_notion_signature(BodyOf(webhook.request), verification_token,
                                 webhook.request.signature)
    /\ webhook.response.status = "ok"


\* C37: once every upsert and import that was started has finished, each
\* entry a notification was enqueued for is a committed row of raw_entries.
C37_NotifiedEntriesAreCommitted ==
    (\A t \in Tasks : tasks[t].pc \in {"idle", "done"})
    => \A entry_id \in notified : \E r \in raw_entries : r.id = entry_id


\* A request of user_id to disconnect Notion has been answered with success.
Disconnected(user_id) ==
    \E c \in Tasks :
        /\ endpoint_calls[c].kind = "disconnect_notion"
        /\ endpoint_calls[c].user_id = user_id
        /\ endpoint_calls[c].pc = "done"
        /\ endpoint_calls[c].status_code = 200

\* C38: from the moment a disconnect of Notion for a tenant has completed,
\* the tenant's Notion rows of raw_entries stay as they are, whichever
\* upserts were started before.
C38_NoWriteAfterDisconnect ==
    [][\A u \in Users :
        Disconnected(u)
        => {r \in raw_entries' : r.user_id = u /\ r.source = "notion"}
           = {r \in raw_entries : r.user_id = u /\ r.source = "notion"}
    ]_vars


\* C39: a Gmail connect of a tenant that has a stored connection, answered
\* by the provider with a token bundle without a refresh token, leaves the
\* one row for the tenant with the access token of the bundle and the
\* refresh token it had.
C39_ReconnectKeepsRefreshToken ==
    [][\A t \in Tasks :
        (/\ endpoint_calls[t].kind = "connect_gmail"
         /\ endpoint_calls[t].pc = "exchange"
         /\ endpoint_calls'[t].pc = "done"
         /\ endpoint_calls'[t].exchanged
         /\ endpoint_calls'[t].refresh_token = None)
        => \A k \in integration_tokens :
              (k.user_id = endpoint_calls[t].user_id
               /\ k.integration_type = "gmail")
              => \E k2 \in integration_tokens' :
                    /\ integration_tokens' \ {k2} = integration_tokens \ {k}
                    /\ k2.user_id = k.user_id
                    /\ k2.integration_type = "gmail"
                    /\ k2.access_token = endpoint_calls'[t].access_token
                    /\ k2.refresh_token = k.refresh_token
    ]_vars

=============================================================================
